---- MODULE Spec2Model ----
(***************************************************************************)
(* Model of the Fantasy Premier League recommender:                        *)
(*   src/src/fpl_web_scraper.py   ScraperAggregator (the consensus store   *)
(*                                and its three queries)                   *)
(*   src/src/fpl_recommender.py   FPLRecommender (web score, player score, *)
(*                                transfer, captain and vice-captain       *)
(*                                suggestions)                             *)
(*                                                                         *)
(* Numbers.  The program computes with Python floats.  The model computes  *)
(* with exact fixed-point integers: the real number x is the integer       *)
(* x * One.  One is chosen so that every division the program performs on  *)
(* the inputs the model draws (by a number of signals, of fixtures or of   *)
(* matches up to 6, by 2, 5, 10, 20, 100 and 200) is exact.                *)
(*                                                                         *)
(* Strings.  A string is a tuple of one-character strings, so that         *)
(* substring search and lower-casing are computed, not assumed.            *)
(***************************************************************************)
EXTENDS Integers, Sequences, FiniteSets, TLC

VARIABLES
    aggregator,    \* the ScraperAggregator object: its player_data
    recommender,   \* the FPLRecommender object: its fields
    network,       \* what the FPL API answers to each request
    cache,         \* the files of the cache directory .fpl_cache
    collected,     \* observer: every starter name a scraper has returned in a lineup
    ret            \* the last call made and what it returned

vars == <<aggregator, recommender, network, cache, collected, ret>>

-----------------------------------------------------------------------------
(* Bounds of the model *)

\* most recommendation signals the store holds in SpecConsensus
MaxRecs == 2
\* most recommendation signals the store holds in SpecWeb
MaxWebRecs == 3
\* most injury signals the store holds in SpecWeb
MaxInjuries == 1

-----------------------------------------------------------------------------
(* Fixed-point numbers *)

One == 1200 * 100

\* Python's None, for the fields and results that are strings otherwise
None == "None"

Min(a, b) == IF a <= b THEN a ELSE b
Max(a, b) == IF a >= b THEN a ELSE b

-----------------------------------------------------------------------------
(* Strings *)

\* str.lower() on one character
LowerChar(c) ==
    CASE c = "A" -> "a"
      [] c = "B" -> "b"
      [] OTHER -> c

\* str.lower()
lower(s) == [i \in 1..Len(s) |-> LowerChar(s[i])]

\* Python's `a in b` on two strings: a is a substring of b
InStr(a, b) ==
    \E i \in 0..(Len(b) - Len(a)) :
        \A k \in 1..Len(a) : b[i + k] = a[k]

\* pandas Series.str.contains(pat, case=False, na=False) on one value s.
\* regex defaults to True, so pat is searched as a regular expression with
\* re.IGNORECASE: the character "." of pat matches any character of s, every
\* other character of the model's alphabet matches itself in either case.
str_contains(s, pat) ==
    \E i \in 0..(Len(s) - Len(pat)) :
        \A k \in 1..Len(pat) :
            \/ pat[k] = "."
            \/ LowerChar(pat[k]) = LowerChar(s[i + k])

-----------------------------------------------------------------------------
(* ScraperAggregator *)

\* ScraperAggregator.__init__: player_data
NewAggregator ==
    [recommendations |-> <<>>, injury_news |-> <<>>, lineups |-> <<>>, odds |-> <<>>]

\* dict.update for one key: lineups is the dict as its (team, players) items in
\* insertion order; an existing key keeps its place and takes the new value
DictSet(d, team, players) ==
    IF \E i \in 1..Len(d) : d[i].team = team
    THEN [i \in 1..Len(d) |->
            IF d[i].team = team THEN [team |-> team, players |-> players] ELSE d[i]]
    ELSE Append(d, [team |-> team, players |-> players])

\* dict.update(new)
RECURSIVE DictUpdate(_, _)
DictUpdate(d, new) ==
    IF new = <<>> THEN d
    ELSE DictUpdate(DictSet(d, Head(new).team, Head(new).players), Tail(new))

\* hasattr(scraper, 'scrape_bookies_odds'): a scraper without the method has
\* no odds field
HasOdds(out) == "odds" \in DOMAIN out

\* list.extend leaving out the entries the list already holds
RECURSIVE ExtendNew(_, _)
ExtendNew(list, new) ==
    IF new = <<>> THEN list
    ELSE IF \E i \in 1..Len(list) : list[i] = Head(new)
    THEN ExtendNew(list, Tail(new))
    ELSE ExtendNew(Append(list, Head(new)), Tail(new))

\* One scraper's turn in scrape_all with the lists kept free of duplicates
ScrapeOneDeduplicating(pd, out) ==
    [recommendations |->
        IF out.recs.raises THEN pd.recommendations
        ELSE ExtendNew(pd.recommendations, out.recs.value),
     injury_news |->
        IF out.injuries.raises THEN pd.injury_news
        ELSE ExtendNew(pd.injury_news, out.injuries.value),
     lineups |->
        IF out.lineups.raises THEN pd.lineups
        ELSE DictUpdate(pd.lineups, out.lineups.value),
     odds |->
        IF ~HasOdds(out) \/ out.odds.raises THEN pd.odds
        ELSE pd.odds \o out.odds.value]

\* One scraper's turn in scrape_all.  out is what its scrape methods do on
\* this run: each either raises or returns a value.  A method that raises adds
\* nothing, and the next method is still called.
ScrapeOne(pd, out) ==
    [recommendations |->
        IF out.recs.raises THEN pd.recommendations
        ELSE pd.recommendations \o out.recs.value,
     injury_news |->
        IF out.injuries.raises THEN pd.injury_news
        ELSE pd.injury_news \o out.injuries.value,
     lineups |->
        IF out.lineups.raises THEN pd.lineups
        ELSE DictUpdate(pd.lineups, out.lineups.value),
     odds |->
        IF ~HasOdds(out) \/ out.odds.raises THEN pd.odds
        ELSE pd.odds \o out.odds.value]

\* the calls scrape_all makes from scraper i on, in order, as (scraper, method)
RECURSIVE scrape_calls(_, _)
scrape_calls(outs, i) ==
    IF i > Len(outs) THEN <<>>
    ELSE <<<<i, "recs">>, <<i, "injuries">>, <<i, "lineups">>>>
         \o (IF HasOdds(outs[i]) THEN <<<<i, "odds">>>> ELSE <<>>)
         \o scrape_calls(outs, i + 1)

\* ScraperAggregator.scrape_all: the scrapers in list order; outs[i] is what
\* scraper i does on this run
RECURSIVE scrape_all(_, _)
scrape_all(pd, outs) ==
    IF outs = <<>> THEN pd
    ELSE scrape_all(ScrapeOne(pd, Head(outs)), Tail(outs))

\* sentiment_scores with negative one step lower
sentiment_scores_low(s) ==
    CASE s = "positive" -> 1
      [] s = "neutral" -> 0
      [] s = "negative" -> -2
      [] OTHER -> 0

\* sentiment_scores
sentiment_scores(s) ==
    CASE s = "positive" -> 1
      [] s = "neutral" -> 0
      [] s = "negative" -> -1
      [] OTHER -> 0

\* type_weights with every entry at the default 1.0
type_weights_default(t) == One

\* type_weights, with .get(rec_type, 1.0)
type_weights(t) ==
    CASE t = "captain" -> 3 * One
      [] t = "essential" -> (5 * One) \div 2
      [] t = "transfer" -> 2 * One
      [] t = "differential" -> (3 * One) \div 2
      [] t = "general" -> One
      [] t = "budget" -> One
      [] t = "avoid" -> -2 * One
      [] OTHER -> One

\* recs_df[recs_df['player_name'].str.contains(player_name, case=False)]:
\* the rows selected, in store order
RECURSIVE SelectRecs(_, _)
SelectRecs(recs, player_name) ==
    IF recs = <<>> THEN <<>>
    ELSE IF str_contains(Head(recs).player_name, player_name)
         THEN <<Head(recs)>> \o SelectRecs(Tail(recs), player_name)
         ELSE SelectRecs(Tail(recs), player_name)

\* weight * (sentiment_mult + 1): what one signal adds to weighted_score
Contribution(rec) ==
    type_weights(rec.recommendation_type) * (sentiment_scores(rec.sentiment) + 1)

\* the loop over player_recs.iterrows() that accumulates weighted_score
RECURSIVE WeightedScore(_)
WeightedScore(player_recs) ==
    IF player_recs = <<>> THEN 0
    ELSE Contribution(Head(player_recs)) + WeightedScore(Tail(player_recs))

\* player_recs['sentiment'].map(sentiment_scores).sum()
RECURSIVE SentimentSum(_)
SentimentSum(player_recs) ==
    IF player_recs = <<>> THEN 0
    ELSE sentiment_scores(Head(player_recs).sentiment) + SentimentSum(Tail(player_recs))

\* get_player_consensus_score from the selected rows on: the mean weighted
\* score, the number of rows and the label of the mean sentiment
ConsensusOf(player_recs) ==
    LET mention_count == Len(player_recs)
        avg_sentiment == (SentimentSum(player_recs) * One) \div Max(mention_count, 1)
        consensus_score == WeightedScore(player_recs) \div Max(mention_count, 1)
    IN  IF player_recs = <<>>
        THEN [consensus_score |-> 0, mention_count |-> 0, sentiment |-> "neutral"]
        ELSE [consensus_score |-> consensus_score,
              mention_count |-> mention_count,
              sentiment |-> IF 10 * avg_sentiment > 3 * One THEN "positive"
                            ELSE IF 10 * avg_sentiment < -3 * One THEN "negative"
                            ELSE "neutral",
              avg_sentiment |-> avg_sentiment]

\* ScraperAggregator.get_player_consensus_score
get_player_consensus_score(pd, player_name) ==
    IF pd.recommendations = <<>>
    THEN [consensus_score |-> 0, mention_count |-> 0, sentiment |-> "neutral"]
    ELSE ConsensusOf(SelectRecs(pd.recommendations, player_name))

\* ScraperAggregator.get_injury_status
RECURSIVE FirstInjury(_, _)
FirstInjury(injuries, player_name) ==
    IF injuries = <<>> THEN None
    ELSE IF str_contains(Head(injuries).player_name, player_name)
         THEN Head(injuries).status
         ELSE FirstInjury(Tail(injuries), player_name)

get_injury_status(pd, player_name) == FirstInjury(pd.injury_news, player_name)

\* ScraperAggregator.is_expected_to_start
is_expected_to_start(pd, player_name) ==
    \E t \in 1..Len(pd.lineups) :
        \E j \in 1..Len(pd.lineups[t].players) :
            InStr(lower(player_name), lower(pd.lineups[t].players[j]))

-----------------------------------------------------------------------------
(* FPLRecommender: construction and the web score *)

\* Optional values that are not strings: None is <<>>, a value x is <<x>>
Nothing == <<>>
Some(x) == <<x>>

\* the default of cache_duration_hours
DefaultCacheDurationHours == 6

\* FPLRecommender.__init__
NewRecommenderWith(use_web_data, cache_duration_hours) ==
    [data |-> Nothing,
     players_df |-> Nothing,
     current_team |-> Nothing,
     budget |-> Nothing,
     free_transfers |-> Nothing,
     current_gameweek |-> Nothing,
     use_web_data |-> use_web_data,
     web_aggregator |-> None,
     cache_duration_hours |-> cache_duration_hours]

\* FPLRecommender(team_id, use_web_data)
NewRecommender(use_web_data) == NewRecommenderWith(use_web_data, DefaultCacheDurationHours)

\* FPLRecommender.load_web_data: the one aggregator of the model is loaded
load_web_data(self) == [self EXCEPT !.web_aggregator = "aggregator"]

\* WebScore with the doubtful penalty applied after the two bonuses
WebScoreHalvedLast(consensus, injury_status, expected_start) ==
    LET base == IF injury_status \in {"out", "suspended"} THEN 0
                ELSE consensus.consensus_score
        started == IF expected_start /\ injury_status \notin {"out", "suspended"}
                   THEN base + (3 * One) \div 2 ELSE base
        boosted == IF consensus.mention_count >= 3 THEN started + One ELSE started
    IN  Max(0, Min(10 * One, IF injury_status = "doubtful" THEN boosted \div 2 ELSE boosted))

\* integrate_web_data from the three answers of the aggregator on: the injury
\* penalty, the lineup bonus, the mention bonus and the clamp to [0, 10]
WebScore(consensus, injury_status, expected_start) ==
    LET base == consensus.consensus_score
        penalised ==
            IF injury_status = "out" THEN 0
            ELSE IF injury_status = "doubtful" THEN base \div 2
            ELSE IF injury_status = "suspended" THEN 0
            ELSE base
        started ==
            IF expected_start /\ injury_status \notin {"out", "suspended"}
            THEN penalised + (3 * One) \div 2
            ELSE penalised
        boosted ==
            IF consensus.mention_count >= 3 THEN started + One ELSE started
    IN  Max(0, Min(10 * One, boosted))

\* FPLRecommender.integrate_web_data; pd is the loaded aggregator's player_data
integrate_web_data(self, pd, player_row) ==
    IF ~self.use_web_data \/ self.web_aggregator = None
    THEN 5 * One
    ELSE WebScore(get_player_consensus_score(pd, player_row.full_name),
                  get_injury_status(pd, player_row.full_name),
                  is_expected_to_start(pd, player_row.full_name))

-----------------------------------------------------------------------------
(* FPLRecommender: the API, the cache and the fetches *)

\* A cache file is its age in hours (now minus its modification time), whether
\* pickle can read it, and its payload.

\* _is_cache_valid with a file of exactly cache_duration_hours still valid
_is_cache_valid_inclusive(self, files, cache_type) ==
    /\ files[cache_type] # Nothing
    /\ files[cache_type][1].age <= self.cache_duration_hours

\* _is_cache_valid: the file exists and age < timedelta(hours=cache_duration_hours)
_is_cache_valid(self, files, cache_type) ==
    /\ files[cache_type] # Nothing
    /\ files[cache_type][1].age < self.cache_duration_hours

\* _load_cache: the payload of a valid cache file that pickle can read, else
\* None
_load_cache(self, files, cache_type) ==
    IF ~_is_cache_valid(self, files, cache_type) THEN Nothing
    ELSE IF ~files[cache_type][1].readable THEN Nothing
    ELSE Some(files[cache_type][1].payload)

\* _save_cache: the file is written now
_save_cache(files, cache_type, payload) ==
    [files EXCEPT ![cache_type] = Some([age |-> 0, readable |-> TRUE, payload |-> payload])]

\* clear_cache: every file of the cache directory is removed
clear_cache(files) == [cache_type \in DOMAIN files |-> Nothing]

\* next((gw['id'] for gw in events if gw[flag]), default)
RECURSIVE FirstEvent(_, _, _)
FirstEvent(events, flag, default) ==
    IF events = <<>> THEN default
    ELSE IF Head(events)[flag] THEN Some(Head(events).id)
    ELSE FirstEvent(Tail(events), flag, default)

\* fetch_fpl_data saving the payload as soon as the bootstrap request has
\* succeeded, before the fixtures are requested
fetch_fpl_data_saving_early(self, files, net, use_cache) ==
    LET cached_data == IF use_cache THEN _load_cache(self, files, "fpl_data") ELSE Nothing
    IN  IF cached_data # Nothing
        THEN [self |-> [self EXCEPT
                          !.data = cached_data,
                          !.current_gameweek =
                              FirstEvent(cached_data[1].events, "is_current",
                                  FirstEvent(cached_data[1].events, "is_next", Some(1)))],
              files |-> files, ok |-> TRUE, requested |-> <<>>]
        ELSE IF net.bootstrap = Nothing
        THEN [self |-> self, files |-> files, ok |-> FALSE, requested |-> <<"bootstrap">>]
        ELSE
          LET fresh == net.bootstrap[1]
              data == [elements |-> fresh.elements, teams |-> fresh.teams,
                       events |-> fresh.events, fixtures |-> net.fixtures]
          IN  [self |-> [self EXCEPT
                           !.data = Some(data),
                           !.current_gameweek = FirstEvent(fresh.events, "is_next", Some(1))],
               files |-> IF use_cache THEN _save_cache(files, "fpl_data", data) ELSE files,
               ok |-> net.fixtures # Nothing,
               requested |-> <<"bootstrap", "fixtures">>]

\* FPLRecommender.fetch_fpl_data.  The result is the object, the cache files and
\* whether the call returned the data (ok) or None.
fetch_fpl_data(self, files, net, use_cache) ==
    LET cached_data == IF use_cache THEN _load_cache(self, files, "fpl_data") ELSE Nothing
    IN  IF cached_data # Nothing
        THEN [self |-> [self EXCEPT
                          !.data = cached_data,
                          !.current_gameweek =
                              FirstEvent(cached_data[1].events, "is_current",
                                  FirstEvent(cached_data[1].events, "is_next", Some(1)))],
              files |-> files, ok |-> TRUE, requested |-> <<>>]
        ELSE IF net.bootstrap = Nothing
        THEN [self |-> self, files |-> files, ok |-> FALSE, requested |-> <<"bootstrap">>]
        ELSE
          LET fresh == net.bootstrap[1]
              first_next == FirstEvent(fresh.events, "is_next", Nothing)
              gameweek == IF first_next = Nothing
                          THEN FirstEvent(fresh.events, "is_next", Some(1))
                          ELSE first_next
              fetched == [self EXCEPT
                            !.data = Some([elements |-> fresh.elements,
                                           teams |-> fresh.teams,
                                           events |-> fresh.events,
                                           fixtures |-> Nothing]),
                            !.current_gameweek = gameweek]
          IN  IF net.fixtures = Nothing
              THEN [self |-> fetched, files |-> files, ok |-> FALSE,
                    requested |-> <<"bootstrap", "fixtures">>]
              ELSE LET data == [elements |-> fresh.elements,
                                teams |-> fresh.teams,
                                events |-> fresh.events,
                                fixtures |-> net.fixtures]
                   IN  [self |-> [fetched EXCEPT !.data = Some(data)],
                        files |-> IF use_cache THEN _save_cache(files, "fpl_data", data)
                                  ELSE files,
                        ok |-> TRUE, requested |-> <<"bootstrap", "fixtures">>]

\* FPLRecommender.fetch_my_team.  The picks are requested for current_gameweek:
\* with no gameweek set the request fails.
fetch_my_team(self, files, net, use_cache) ==
    LET cached_team == IF use_cache THEN _load_cache(self, files, "my_team") ELSE Nothing
    IN  IF cached_team # Nothing
        THEN [self |-> [self EXCEPT
                          !.current_team = cached_team,
                          !.budget = Some(cached_team[1].budget),
                          !.free_transfers = Some(cached_team[1].free_transfers)],
              files |-> files, ok |-> TRUE, requested |-> <<>>]
        ELSE IF net.entry = Nothing
        THEN [self |-> self, files |-> files, ok |-> FALSE, requested |-> <<"entry">>]
        ELSE IF net.picks = Nothing \/ self.current_gameweek = Nothing
        THEN [self |-> self, files |-> files, ok |-> FALSE,
              requested |-> <<"entry", "picks">>]
        ELSE
          LET picks_data == net.picks[1]
              team == [squad_ids |-> picks_data.picks,
                       budget |-> picks_data.bank,
                       free_transfers |-> picks_data.event_transfers_cost]
          IN  [self |-> [self EXCEPT
                           !.current_team = Some(team),
                           !.budget = Some(team.budget),
                           !.free_transfers = Some(team.free_transfers)],
               files |-> IF use_cache THEN _save_cache(files, "my_team", team) ELSE files,
               ok |-> TRUE, requested |-> <<"entry", "picks">>]

\* position_map
position_map(element_type) ==
    CASE element_type = 1 -> "GK"
      [] element_type = 2 -> "DEF"
      [] element_type = 3 -> "MID"
      [] element_type = 4 -> "FWD"

\* {team['id']: team[field] for team in self.data['teams']}[id]; "?" is the NaN
\* that .map gives for an id that is no key
RECURSIVE TeamField(_, _, _)
TeamField(teams, id, field) ==
    IF teams = <<>> THEN "?"
    ELSE IF teams[Len(teams)].id = id THEN teams[Len(teams)][field]
    ELSE TeamField(SubSeq(teams, 1, Len(teams) - 1), id, field)

\* A decimal string of the API that is no number, and the missing value NaN
\* that pd.to_numeric(errors='coerce') makes of it.  Both stand below every
\* number of the model, and no comparison of Python with NaN is true.
NonNumeric == 0 - 1000
NaN == NonNumeric * One
to_numeric(x) == IF x = NonNumeric THEN NaN ELSE x * (One \div 10)

\* x > 0 in Python: False for NaN
Positive(x) == x # NaN /\ x > 0

\* One row of players_df.  Prices (now_cost, value, budget) are kept in tenths of
\* a million, as the API gives them; form, ict_index and selected_by_percent come
\* from the API as decimal strings with one decimal, kept here in tenths, and
\* pd.to_numeric turns them into numbers.
PlayerRow(e, teams) ==
    [id |-> e.id,
     full_name |-> e.full_name,
     position_name |-> position_map(e.element_type),
     team |-> e.team,
     team_name |-> TeamField(teams, e.team, "name"),
     now_cost |-> e.now_cost,
     value |-> e.now_cost,
     status |-> e.status,
     total_points |-> e.total_points,
     form_numeric |-> to_numeric(e.form),
     ict_index_numeric |-> to_numeric(e.ict_index),
     selected_by_percent_numeric |-> e.selected_by_percent * (One \div 10)]

\* prepare_players_dataframe after its fetch.  raised: self.data is still None,
\* and self.data['elements'] raises TypeError.
PlayersFrom(f) ==
    IF f.self.data = Nothing
    THEN [self |-> f.self, files |-> f.files, raised |-> TRUE]
    ELSE [self |-> [f.self EXCEPT !.players_df =
                     Some([i \in 1..Len(f.self.data[1].elements) |->
                               PlayerRow(f.self.data[1].elements[i], f.self.data[1].teams)])],
          files |-> f.files, raised |-> FALSE]

\* FPLRecommender.prepare_players_dataframe
prepare_players_dataframe(self, files, net) ==
    IF self.data = Nothing
    THEN PlayersFrom(fetch_fpl_data(self, files, net, TRUE))
    ELSE PlayersFrom([self |-> self, files |-> files, ok |-> TRUE])

\* FPLRecommender.get_fixtures_for_gameweek(self.current_gameweek)
RECURSIVE FilterFixtures(_, _)
FilterFixtures(fixtures, gameweek) ==
    IF fixtures = <<>> THEN <<>>
    ELSE IF Some(Head(fixtures).event) = gameweek
         THEN <<Head(fixtures)>> \o FilterFixtures(Tail(fixtures), gameweek)
         ELSE FilterFixtures(Tail(fixtures), gameweek)

get_fixtures_for_gameweek(self, gameweek) ==
    IF self.data = Nothing \/ self.data[1].fixtures = Nothing
    THEN <<>>
    ELSE FilterFixtures(self.data[1].fixtures[1], gameweek)

\* FPLRecommender.get_player_fixtures: [] when the request fails
get_player_fixtures(net, player_id, num_fixtures) ==
    IF player_id \notin DOMAIN net.summary \/ net.summary[player_id] = Nothing
    THEN <<>>
    ELSE LET fixtures == net.summary[player_id][1].fixtures
         IN  SubSeq(fixtures, 1, Min(num_fixtures, Len(fixtures)))

RECURSIVE SumField(_, _)
SumField(s, field) ==
    IF s = <<>> THEN 0 ELSE Head(s)[field] + SumField(Tail(s), field)

RECURSIVE VsOpponent(_, _)
VsOpponent(history, opponent_team) ==
    IF history = <<>> THEN <<>>
    ELSE IF Head(history).opponent_team = opponent_team
         THEN <<Head(history)>> \o VsOpponent(Tail(history), opponent_team)
         ELSE VsOpponent(Tail(history), opponent_team)

\* FPLRecommender.get_player_history_vs_team
get_player_history_vs_team(net, player_id, opponent_team) ==
    IF player_id \notin DOMAIN net.summary \/ net.summary[player_id] = Nothing
    THEN [matches |-> 0, avg_points |-> 0]
    ELSE LET vs_opponent == VsOpponent(net.summary[player_id][1].history, opponent_team)
         IN  IF vs_opponent = <<>>
             THEN [matches |-> 0, avg_points |-> 0]
             ELSE [matches |-> Len(vs_opponent),
                   avg_points |->
                       (SumField(vs_opponent, "total_points") * One) \div Len(vs_opponent)]

\* calculate_fixture_difficulty_score over every fixture the API lists
fixture_difficulty_of_all(net, player_id, num_fixtures) ==
    IF get_player_fixtures(net, player_id, 38) = <<>> THEN 3 * One
    ELSE (SumField(get_player_fixtures(net, player_id, 38), "difficulty") * One)
         \div Len(get_player_fixtures(net, player_id, 38))

\* FPLRecommender.calculate_fixture_difficulty_score
calculate_fixture_difficulty_score(net, player_id, num_fixtures) ==
    LET fixtures == get_player_fixtures(net, player_id, num_fixtures)
    IN  IF fixtures = <<>> THEN 3 * One
        ELSE (SumField(fixtures, "difficulty") * One) \div Len(fixtures)

\* df['team'].map(team_next_opponent) gives NaN for a team with no fixture in the
\* gameweek; NaN is this value, which is no team's id
NoOpponent == 0

\* team_next_opponent[team] after the loop over the gameweek's fixtures: a later
\* fixture of the same team overwrites an earlier one
RECURSIVE NextOpponent(_, _, _)
NextOpponent(fixtures, team, found) ==
    IF fixtures = <<>> THEN found
    ELSE LET f == Head(fixtures)
             after_home == IF f.team_h = team THEN f.team_a ELSE found
             after_away == IF f.team_a = team THEN f.team_h ELSE after_home
         IN  NextOpponent(Tail(fixtures), team, after_away)

\* WebWeights with the web weight as in the captain score
WebWeightsShort ==
    [form |-> 25, fixture |-> 20, historical |-> 15, points |-> 12, ict |-> 8, web |-> 15]

\* the weights of the weighted average with web data, in hundredths
WebWeights ==
    [form |-> 25, fixture |-> 20, historical |-> 15, points |-> 12, ict |-> 8, web |-> 20]

\* the weights without web data, in hundredths
PlainWeights ==
    [form |-> 30, fixture |-> 25, historical |-> 20, points |-> 15, ict |-> 10]

\* UsesWebColumn that looks at the flag alone
UsesWebColumnByFlag(self) == self.use_web_data

\* if self.use_web_data and self.web_aggregator
UsesWebColumn(self) == self.use_web_data /\ self.web_aggregator # None

\* calculate_player_score without the cap of 10 on points_score
calculate_player_score_uncapped(self, pd, net, player_row, next_opponent) ==
    LET player_id == player_row.id
        form_score == IF Positive(player_row.form_numeric)
                      THEN player_row.form_numeric ELSE 0
        fixture_diff == calculate_fixture_difficulty_score(net, player_id, 5)
        fixture_score == ((6 * One - fixture_diff) * 10) \div 5
        history == get_player_history_vs_team(net, player_id, next_opponent)
        historical_score == Min((history.avg_points * 3) \div 2, 10 * One)
        points_score == (player_row.total_points * One) \div 20
        ict_score == IF Positive(player_row.ict_index_numeric)
                     THEN Min(player_row.ict_index_numeric \div 20, 10 * One)
                     ELSE 0
        web_score == integrate_web_data(self, pd, player_row)
    IN  IF UsesWebColumn(self)
        THEN (form_score * WebWeights.form + fixture_score * WebWeights.fixture
              + historical_score * WebWeights.historical
              + points_score * WebWeights.points + ict_score * WebWeights.ict
              + web_score * WebWeights.web) \div 100
        ELSE (form_score * PlainWeights.form + fixture_score * PlainWeights.fixture
              + historical_score * PlainWeights.historical
              + points_score * PlainWeights.points + ict_score * PlainWeights.ict)
             \div 100

\* FPLRecommender.calculate_player_score.  NaN as next_opponent is truthy, and
\* no match of the history is against NaN.
calculate_player_score(self, pd, net, player_row, next_opponent) ==
    LET player_id == player_row.id
        form_score == IF Positive(player_row.form_numeric)
                      THEN player_row.form_numeric ELSE 0
        fixture_diff == calculate_fixture_difficulty_score(net, player_id, 5)
        fixture_score == ((6 * One - fixture_diff) * 10) \div 5
        history == get_player_history_vs_team(net, player_id, next_opponent)
        historical_score == Min((history.avg_points * 3) \div 2, 10 * One)
        points_score == Min((player_row.total_points * One) \div 20, 10 * One)
        ict_score == IF Positive(player_row.ict_index_numeric)
                     THEN Min(player_row.ict_index_numeric \div 20, 10 * One)
                     ELSE 0
        web_score == integrate_web_data(self, pd, player_row)
    IN  IF UsesWebColumn(self)
        THEN (form_score * WebWeights.form + fixture_score * WebWeights.fixture
              + historical_score * WebWeights.historical
              + points_score * WebWeights.points + ict_score * WebWeights.ict
              + web_score * WebWeights.web) \div 100
        ELSE (form_score * PlainWeights.form + fixture_score * PlainWeights.fixture
              + historical_score * PlainWeights.historical
              + points_score * PlainWeights.points + ict_score * PlainWeights.ict)
             \div 100

-----------------------------------------------------------------------------
(* FPLRecommender: suggest_transfers *)

\* a stable sort of the positions 1..Len(keys) by key, ascending or descending:
\* equal keys keep their original order (list.sort; DataFrame.sort_values on
\* the few rows of a squad or a candidate list)
RECURSIVE StableOrder(_, _)
StableOrder(keys, descending) ==
    IF keys = <<>> THEN <<>>
    ELSE LET n == Len(keys)
             front == StableOrder(SubSeq(keys, 1, n - 1), descending)
             p == Cardinality({i \in 1..(n - 1) :
                     IF descending THEN keys[front[i]] >= keys[n]
                                   ELSE keys[front[i]] <= keys[n]})
         IN  SubSeq(front, 1, p) \o <<n>> \o SubSeq(front, p + 1, n - 1)

\* SortRows with rows of equal key in the reverse of their order in rows
SortRowsTiesReversed(rows, field, descending) ==
    LET order == StableOrder([i \in 1..Len(rows) |-> rows[i][field]], ~descending)
    IN  [i \in 1..Len(rows) |-> rows[order[Len(rows) + 1 - i]]]

SortRows(rows, field, descending) ==
    LET order == StableOrder([i \in 1..Len(rows) |-> rows[i][field]], descending)
    IN  [i \in 1..Len(rows) |-> rows[order[i]]]

\* FPLRecommender.get_current_squad_df, once the team and the players are loaded
SquadRows(self) ==
    SelectSeq(self.players_df[1],
              LAMBDA row : \E k \in 1..Len(self.current_team[1].squad_ids) :
                              self.current_team[1].squad_ids[k] = row.id)

\* the columns next_opponent and player_score added to the rows
WithScores(self, pd, net, rows, fixtures) ==
    [i \in 1..Len(rows) |->
        LET next_opponent == NextOpponent(fixtures, rows[i].team, NoOpponent)
        IN  [next_opponent |-> next_opponent,
             player_score |-> calculate_player_score(self, pd, net, rows[i], next_opponent)]
            @@ rows[i]]

\* Take with the bound off by one: the slice keeps one element more
TakeOneMore(s, n) == SubSeq(s, 1, Min(n + 1, Len(s)))

\* a slice s[:n]
Take(s, n) == SubSeq(s, 1, Min(n, Len(s)))

\* current_squad_df['team'].value_counts().get(team, 0)
TeamCount(squad_df, team) ==
    Cardinality({i \in 1..Len(squad_df) : squad_df[i].team = team})

\* affordable.head(10)
HeadCount == 10
\* transfer_suggestions[:num_transfers * 5]
ResultsPerTransfer == 5
\* score_improvement > 0.5, in tenths
MinImprovementTenths == 5

\* ClubFull with the limit off by one: a fourth member is let in
ClubFullAtFour(squad_df, out_player, in_player) ==
    /\ in_player.team # out_player.team
    /\ TeamCount(squad_df, in_player.team) >= 4

\* the max-3-per-club check: the replacement is skipped
ClubFull(squad_df, out_player, in_player) ==
    /\ in_player.team # out_player.team
    /\ TeamCount(squad_df, in_player.team) >= 3

\* Improves with the comparison not strict
ImprovesOrEqual(score_improvement) == 10 * score_improvement >= MinImprovementTenths * One

\* if score_improvement > 0.5
Improves(score_improvement) == 10 * score_improvement > MinImprovementTenths * One

\* the dictionary appended for an accepted pair
Suggestion(self, pd, pos, out_player, in_player) ==
    LET consensus == get_player_consensus_score(pd, in_player.full_name)
    IN  [out_player |-> out_player.full_name,
         out_player_id |-> out_player.id,
         out_team |-> out_player.team_name,
         out_price |-> out_player.value,
         out_score |-> out_player.player_score,
         out_form |-> out_player.form_numeric,
         in_player |-> in_player.full_name,
         in_player_id |-> in_player.id,
         in_team |-> in_player.team_name,
         in_price |-> in_player.value,
         in_score |-> in_player.player_score,
         in_form |-> in_player.form_numeric,
         position |-> pos,
         improvement |-> in_player.player_score - out_player.player_score,
         cost_diff |-> in_player.value - out_player.value,
         web_mentions |-> IF self.web_aggregator # None THEN consensus.mention_count ELSE 0,
         web_sentiment |-> IF self.web_aggregator # None THEN consensus.sentiment
                           ELSE "neutral"]

\* the loop over affordable.head(10) for one out_player
RECURSIVE ForCandidates(_, _, _, _, _, _)
ForCandidates(self, pd, pos, squad_df, out_player, candidates) ==
    IF candidates = <<>> THEN <<>>
    ELSE LET in_player == Head(candidates)
             rest == ForCandidates(self, pd, pos, squad_df, out_player, Tail(candidates))
         IN  IF ClubFull(squad_df, out_player, in_player) THEN rest
             ELSE IF Improves(in_player.player_score - out_player.player_score)
                  THEN <<Suggestion(self, pd, pos, out_player, in_player)>> \o rest
                  ELSE rest

\* Affordable with the price test dropped
AnyPrice(row, available_budget) == TRUE

\* pos_available['value'] <= available_budget
Affordable(row, available_budget) == row.value <= available_budget

\* the body of the loop over pos_current for one out_player
ForOutPlayer(self, pd, pos, squad_df, pos_available, out_player) ==
    LET available_budget == self.budget[1] + out_player.now_cost
        affordable == SelectSeq(pos_available,
                                LAMBDA row : Affordable(row, available_budget))
    IN  IF affordable = <<>> THEN <<>>
        ELSE ForCandidates(self, pd, pos, squad_df, out_player,
                           Take(SortRows(affordable, "player_score", TRUE), HeadCount))

RECURSIVE ForOutPlayers(_, _, _, _, _, _)
ForOutPlayers(self, pd, pos, squad_df, pos_available, pos_current) ==
    IF pos_current = <<>> THEN <<>>
    ELSE ForOutPlayer(self, pd, pos, squad_df, pos_available, Head(pos_current))
         \o ForOutPlayers(self, pd, pos, squad_df, pos_available, Tail(pos_current))

\* the loop over the four positions
RECURSIVE ForPositions(_, _, _, _, _, _)
ForPositions(self, pd, positions, position_filter, squad_df, available_players) ==
    IF positions = <<>> THEN <<>>
    ELSE LET pos == Head(positions)
             rest == ForPositions(self, pd, Tail(positions), position_filter,
                                  squad_df, available_players)
             pos_current == SortRows(
                 SelectSeq(squad_df, LAMBDA row : row.position_name = pos),
                 "player_score", FALSE)
             pos_available == SelectSeq(available_players,
                                        LAMBDA row : row.position_name = pos)
         IN  IF position_filter # None /\ pos # position_filter THEN rest
             ELSE ForOutPlayers(self, pd, pos, squad_df, pos_available, pos_current)
                  \o rest

\* available_players before it is scored: the players outside the squad with
\* status 'a', of the position asked for
AvailableRows(self, position_filter) ==
    SelectSeq(self.players_df[1],
        LAMBDA row : /\ \A k \in 1..Len(self.current_team[1].squad_ids) :
                          self.current_team[1].squad_ids[k] # row.id
                     /\ row.status = "a"
                     /\ position_filter # None => row.position_name = position_filter)

\* suggest_transfers from the point where team, players and fixtures are loaded
TransferSuggestions(self, pd, net, num_transfers, position_filter) ==
    LET fixtures == get_fixtures_for_gameweek(self, self.current_gameweek)
        current_squad_df == WithScores(self, pd, net, SquadRows(self), fixtures)
        available_players == WithScores(self, pd, net,
                                        AvailableRows(self, position_filter), fixtures)
        transfer_suggestions ==
            ForPositions(self, pd, <<"GK", "DEF", "MID", "FWD">>, position_filter,
                         current_squad_df, available_players)
    IN  Take(SortRows(transfer_suggestions, "improvement", TRUE),
             num_transfers * ResultsPerTransfer)

\* the state a call is in: the object, the cache files, and whether an exception
\* is propagating
Running(self, files) == [self |-> self, files |-> files, raised |-> FALSE]

\* if self.current_team is None: self.fetch_my_team()
EnsureTeam(s, net) ==
    IF s.raised \/ s.self.current_team # Nothing THEN s
    ELSE [raised |-> FALSE] @@ fetch_my_team(s.self, s.files, net, TRUE)

\* if self.players_df is None: self.prepare_players_dataframe()
EnsurePlayers(s, net) ==
    IF s.raised \/ s.self.players_df # Nothing THEN s
    ELSE prepare_players_dataframe(s.self, s.files, net)

\* if not self.data or 'fixtures' not in self.data: self.fetch_fpl_data(use_cache=False)
EnsureFixtures(s, net) ==
    IF s.raised \/ ~(s.self.data = Nothing \/ s.self.data[1].fixtures = Nothing) THEN s
    ELSE [raised |-> FALSE] @@ fetch_fpl_data(s.self, s.files, net, FALSE)

\* FPLRecommender.get_current_squad_df up to its read of self.current_team:
\* subscripting None raises TypeError
EnsureSquad(s, net) ==
    IF s.raised THEN s
    ELSE [EnsurePlayers(EnsureTeam(s, net), net) EXCEPT
             !.raised = @ \/ EnsureTeam(s, net).self.current_team = Nothing]

\* frame['player_score'] = frame.apply(lambda row: ..., axis=1) on a frame
\* without rows.  apply then returns either an empty Series or a copy of the
\* frame, by the pandas release and by whether the lambda fails on a row of
\* missing values; the assignment of a frame of several columns to one column
\* raises ValueError.  Both outcomes are kept.
ApplyOutcomes == BOOLEAN

\* one of the two frames suggest_transfers scores has no rows
ScoresEmptyFrame(self, position_filter) ==
    SquadRows(self) = <<>> \/ AvailableRows(self, position_filter) = <<>>

\* the suggestions when the preamble has not raised
SuggestFrom(s, pd, net, num_transfers, position_filter, apply_raises) ==
    IF s.raised
    THEN [self |-> s.self, files |-> s.files, raised |-> TRUE, value |-> <<>>]
    ELSE IF apply_raises /\ ScoresEmptyFrame(s.self, position_filter)
    THEN [self |-> s.self, files |-> s.files, raised |-> TRUE, value |-> <<>>]
    ELSE [self |-> s.self, files |-> s.files, raised |-> FALSE,
          value |-> TransferSuggestions(s.self, pd, net, num_transfers, position_filter)]

\* FPLRecommender.suggest_transfers
suggest_transfers(self, files, net, pd, num_transfers, position_filter, apply_raises) ==
    SuggestFrom(
        EnsureSquad(EnsureFixtures(EnsurePlayers(EnsureTeam(Running(self, files), net),
                                                 net), net), net),
        pd, net, num_transfers, position_filter, apply_raises)

-----------------------------------------------------------------------------
(* FPLRecommender: suggest_captain and suggest_vice_captain *)

\* position_multipliers.get(position_name, 1.0), in tenths
position_multipliers(position_name) ==
    CASE position_name = "FWD" -> 12
      [] position_name = "MID" -> 11
      [] position_name = "DEF" -> 9
      [] position_name = "GK" -> 5
      [] OTHER -> 10

\* current_squad_df['team'].map(is_home): "True" for the home team of the
\* gameweek's fixture, "False" for the away team, "NaN" for a team with no
\* fixture; a later fixture of the same team overwrites an earlier one
RECURSIVE IsHome(_, _, _)
IsHome(fixtures, team, found) ==
    IF fixtures = <<>> THEN found
    ELSE IsHome(Tail(fixtures), team,
                IF Head(fixtures).team_a = team THEN "False"
                ELSE IF Head(fixtures).team_h = team THEN "True"
                ELSE found)

\* current_squad_df['team'].map(opponent_names); the fixtures the model draws
\* are between teams of self.data['teams'], so teams_dict has every key
OpponentName(teams, next_opponent) ==
    IF next_opponent = NoOpponent THEN "NaN"
    ELSE TeamField(teams, next_opponent, "short_name")

\* len(captain_recs): the stored signals of type captain that match the name
RECURSIVE CaptainMentions(_, _)
CaptainMentions(recs, player_name) ==
    IF recs = <<>> THEN 0
    ELSE (IF /\ str_contains(Head(recs).player_name, player_name)
             /\ Head(recs).recommendation_type = "captain"
          THEN 1 ELSE 0)
         + CaptainMentions(Tail(recs), player_name)

\* the branch "Check general consensus"
ConsensusCaptainScore(consensus) ==
    IF consensus.mention_count > 0
    THEN Min((consensus.consensus_score * 12) \div 10, 10 * One)
    ELSE 5 * One

\* web_captain_score and is_web_captain
WebCaptain(self, pd, player_name) ==
    IF self.web_aggregator = None \/ pd.recommendations = <<>>
    THEN [score |-> 5 * One, is_web_captain |-> FALSE]
    ELSE IF CaptainMentions(pd.recommendations, player_name) > 0
    THEN [score |-> Min(10 * One,
                        7 * One + (CaptainMentions(pd.recommendations, player_name)
                                   * 3 * One) \div 2),
          is_web_captain |-> TRUE]
    ELSE [score |-> ConsensusCaptainScore(get_player_consensus_score(pd, player_name)),
          is_web_captain |-> FALSE]

\* captain_score from the four components on: the weighted sum, the home
\* bonus (NaN is truthy), the position multiplier and the premium bonus
CaptainScore(player, fixture_score, historical_score, web_captain_score, is_home) ==
    LET form_score == IF Positive(player.form_numeric) THEN player.form_numeric ELSE 0
        weighted == (fixture_score * 40 + form_score * 25 + historical_score * 20
                     + web_captain_score * 15) \div 100
        at_home == IF is_home # "False" THEN weighted + One \div 2 ELSE weighted
        multiplied == (at_home * position_multipliers(player.position_name)) \div 10
    IN  IF player.value >= 100 THEN multiplied + One \div 2 ELSE multiplied

\* expected_points: form * fixture_ease * position multiplier * 2
ExpectedPoints(player, next_fixture) ==
    IF player.form_numeric = NaN THEN NaN
    ELSE IF next_fixture # <<>>
    THEN (player.form_numeric * (6 - next_fixture[1].difficulty)
          * position_multipliers(player.position_name) * 2) \div 50
    ELSE (player.form_numeric * position_multipliers(player.position_name)) \div 10

\* the dictionary appended for one squad member
Candidate(player, next_fixture, opponent_name, is_home, history, web) ==
    [player_name |-> player.full_name,
     player_id |-> player.id,
     team |-> player.team_name,
     position |-> player.position_name,
     price |-> player.value,
     captain_score |->
         CaptainScore(player,
                      IF next_fixture # <<>>
                      THEN (6 - next_fixture[1].difficulty) * 2 * One
                      ELSE 5 * One,
                      Min((history.avg_points * 3) \div 2, 10 * One),
                      web.score, is_home),
     form |-> player.form_numeric,
     opponent |-> opponent_name,
     is_home |-> is_home,
     fixture_difficulty |-> IF next_fixture # <<>> THEN next_fixture[1].difficulty ELSE 3,
     expected_points |-> ExpectedPoints(player, next_fixture),
     is_web_captain |-> web.is_web_captain,
     total_points |-> player.total_points,
     selected_by |-> player.selected_by_percent_numeric]

\* the body of the loop over current_squad_df.iterrows()
CaptainCandidate(self, pd, net, player, next_opponent, fixtures) ==
    Candidate(player,
              get_player_fixtures(net, player.id, 1),
              OpponentName(self.data[1].teams, next_opponent),
              IsHome(fixtures, player.team, "NaN"),
              get_player_history_vs_team(net, player.id, next_opponent),
              WebCaptain(self, pd, player.full_name))

\* captain_candidates before the sort, in squad order
CaptainCandidates(self, pd, net, squad, fixtures) ==
    [i \in 1..Len(squad) |->
        CaptainCandidate(self, pd, net, squad[i],
                         NextOpponent(fixtures, squad[i].team, NoOpponent), fixtures)]

\* suggest_captain when the preamble has not raised
CaptainsFrom(s, pd, net, top_n) ==
    IF s.raised
    THEN [self |-> s.self, files |-> s.files, raised |-> TRUE, value |-> <<>>]
    ELSE [self |-> s.self, files |-> s.files, raised |-> FALSE,
          value |->
              Take(SortRows(CaptainCandidates(s.self, pd, net, SquadRows(s.self),
                                get_fixtures_for_gameweek(s.self, s.self.current_gameweek)),
                            "captain_score", TRUE),
                   top_n)]

\* FPLRecommender.suggest_captain
suggest_captain(self, files, net, pd, top_n) ==
    CaptainsFrom(
        EnsureSquad(EnsureFixtures(EnsurePlayers(EnsureTeam(Running(self, files), net),
                                                 net), net), net),
        pd, net, top_n)

\* suggest_captain(top_n=15)
ViceTopN == 15

\* KeepOption with the names compared as they are spelled
KeepOptionExact(opt, captain_choice) ==
    captain_choice = <<>> \/ opt.player_name # captain_choice

\* the filter on captain_options.  captain_choice is a string; the empty string
\* stands for None as well, both being falsy
KeepOption(opt, captain_choice) ==
    captain_choice = <<>> \/ lower(opt.player_name) # lower(captain_choice)

\* vice_score without the penalty for a low ownership
vice_score_no_penalty(option) ==
    option.captain_score
    + (IF option.form # NaN /\ option.total_points * One > 15 * Max(option.form, One)
       THEN One \div 2 ELSE 0)

\* option['vice_score']
vice_score(option) ==
    (IF option.selected_by < 5 * One
     THEN (option.captain_score * 8) \div 10
     ELSE option.captain_score)
    + (IF option.form # NaN /\ option.total_points * One > 15 * Max(option.form, One)
       THEN One \div 2 ELSE 0)

WithViceScore(options) ==
    [i \in 1..Len(options) |-> [vice_score |-> vice_score(options[i])] @@ options[i]]

\* suggest_vice_captain after its call of suggest_captain: the value is the
\* first option of the sorted list as <<option>>, or None as <<>>
ViceFrom(r, captain_choice) ==
    IF r.raised THEN r
    ELSE [r EXCEPT !.value =
            Take(SortRows(WithViceScore(
                              SelectSeq(r.value,
                                        LAMBDA opt : KeepOption(opt, captain_choice))),
                          "vice_score", TRUE),
                 1)]

\* FPLRecommender.suggest_vice_captain
suggest_vice_captain(self, files, net, pd, captain_choice) ==
    ViceFrom(suggest_captain(self, files, net, pd, ViceTopN), captain_choice)

-----------------------------------------------------------------------------
(* What the scrapers return *)

RecTypes == {"captain", "essential", "transfer", "differential", "general", "budget", "avoid"}
Sentiments == {"positive", "neutral", "negative"}

Rec(name, type, sentiment) ==
    [player_name |-> name, recommendation_type |-> type, sentiment |-> sentiment]
Injury(name, status) == [player_name |-> name, status |-> status]
Lineup(team, players) == [team |-> team, players |-> players]

\* what one scrape method does on one run
Returns(v) == [raises |-> FALSE, value |-> v]

\* a scraper none of whose methods raises on this run
Scraper(recs, injuries, lineups) ==
    [recs |-> Returns(recs), injuries |-> Returns(injuries),
     lineups |-> Returns(lineups), odds |-> Returns(<<>>)]

\* the starter names the scrapers of one run return
RECURSIVE StartersReturned(_)
StartersReturned(outs) ==
    IF outs = <<>> THEN {}
    ELSE LET ls == IF Head(outs).lineups.raises THEN <<>> ELSE Head(outs).lineups.value
         IN  {ls[t].players[j] : <<t, j>> \in
                 {<<t, j>> \in (1..Len(ls)) \X (1..3) : j <= Len(ls[t].players)}}
             \cup StartersReturned(Tail(outs))

RECURSIVE CountRecs(_)
CountRecs(outs) ==
    IF outs = <<>> THEN 0
    ELSE (IF Head(outs).recs.raises THEN 0 ELSE Len(Head(outs).recs.value))
         + CountRecs(Tail(outs))

RECURSIVE CountInjuries(_)
CountInjuries(outs) ==
    IF outs = <<>> THEN 0
    ELSE (IF Head(outs).injuries.raises THEN 0 ELSE Len(Head(outs).injuries.value))
         + CountInjuries(Tail(outs))

\* SpecConsensus: every type and sentiment under one spelling, and two other
\* spellings of the name (another case, a shorter nickname)
ConsensusSignals ==
    {Rec(<<"a", "b">>, t, s) : t \in RecTypes, s \in Sentiments}
    \cup {Rec(<<"A", "B">>, "essential", "positive"), Rec(<<"b">>, "general", "neutral")}

\* the names queried in SpecConsensus
QueryNames == {<<"a", "b">>, <<"B">>, <<"a", ".">>, <<"b", "a">>}

\* SpecWeb: what one scraper returns on one run is one signal
WebRecs == {Rec(<<"a", "b">>, "captain", "positive"), Rec(<<"a", "b">>, "avoid", "neutral")}
WebInjuries == {Injury(<<"a", "b">>, st) : st \in {"out", "doubtful", "suspended", "unknown"}}
WebLineups == {Lineup("T1", <<<<"A", "b">>>>)}
WebScrapers ==
    {Scraper(<<r>>, <<>>, <<>>) : r \in WebRecs}
    \cup {Scraper(<<>>, <<i>>, <<>>) : i \in WebInjuries}
    \cup {Scraper(<<>>, <<>>, <<l>>) : l \in WebLineups}
\* the aggregator's scraper list holds one or two scrapers
WebRuns == {<<o>> : o \in WebScrapers} \cup {<<o1, o2>> : o1 \in WebScrapers, o2 \in WebScrapers}

\* the players whose web score is asked for in SpecWeb
WebPlayers == {[full_name |-> <<"a", "b">>], [full_name |-> <<"b">>]}

\* SpecLineups: two sources predict the starters of two teams
TeamLineups ==
    {Lineup(t, ps) : t \in {"T1", "T2"},
                     ps \in {<<<<"a", "b">>>>, <<<<"b">>>>, <<<<"A", "a">>, <<"b", "a">>>>}}
LineupScrapers == {Scraper(<<>>, <<>>, <<l>>) : l \in TeamLineups}
LineupRuns ==
    {<<o>> : o \in LineupScrapers}
    \cup {<<o1, o2>> : o1 \in LineupScrapers, o2 \in LineupScrapers}
\* the names asked about in SpecLineups
StarterNames == {<<"a", "b">>, <<"B">>, <<"a", "a">>}

-----------------------------------------------------------------------------
(* Actions on the aggregator and the web score *)

\* no request is made in the specifications of the aggregator
NoNetwork == [bootstrap |-> Nothing, fixtures |-> Nothing, entry |-> Nothing,
              picks |-> Nothing, summary |-> <<>>]
\* the cache directory as __init__ creates it: no file
NoCache == [fpl_data |-> Nothing, my_team |-> Nothing]

ScrapeAll(outs) ==
    /\ aggregator' = scrape_all(aggregator, outs)
    /\ collected' = collected \cup StartersReturned(outs)
    /\ ret' = [op |-> "scrape_all"]
    /\ UNCHANGED <<recommender, network, cache>>

\* get_player_consensus_score answering from the store as it was constructed
GetPlayerConsensusScoreStale(name) ==
    /\ ret' = [op |-> "get_player_consensus_score", name |-> name,
               val |-> get_player_consensus_score(NewAggregator, name)]
    /\ UNCHANGED <<aggregator, recommender, network, cache, collected>>

GetPlayerConsensusScore(name) ==
    /\ ret' = [op |-> "get_player_consensus_score", name |-> name,
               val |-> get_player_consensus_score(aggregator, name)]
    /\ UNCHANGED <<aggregator, recommender, network, cache, collected>>

GetInjuryStatus(name) ==
    /\ ret' = [op |-> "get_injury_status", name |-> name,
               val |-> get_injury_status(aggregator, name)]
    /\ UNCHANGED <<aggregator, recommender, network, cache, collected>>

IsExpectedToStart(name) ==
    /\ ret' = [op |-> "is_expected_to_start", name |-> name,
               val |-> is_expected_to_start(aggregator, name)]
    /\ UNCHANGED <<aggregator, recommender, network, cache, collected>>

LoadWebData ==
    /\ recommender' = load_web_data(recommender)
    /\ ret' = [op |-> "load_web_data"]
    /\ UNCHANGED <<aggregator, network, cache, collected>>

IntegrateWebData(player_row) ==
    /\ ret' = [op |-> "integrate_web_data", name |-> player_row.full_name,
               val |-> integrate_web_data(recommender, aggregator, player_row)]
    /\ UNCHANGED <<aggregator, recommender, network, cache, collected>>

-----------------------------------------------------------------------------
(* SpecConsensus: the recommendation store and get_player_consensus_score *)

InitConsensus ==
    /\ aggregator = NewAggregator
    /\ recommender = NewRecommender(TRUE)
    /\ network = NoNetwork
    /\ cache = NoCache
    /\ collected = {}
    /\ ret = [op |-> "init"]

ScrapeRecs ==
    \E r \in ConsensusSignals :
        /\ Len(aggregator.recommendations) < MaxRecs
        /\ ScrapeAll(<<Scraper(<<r>>, <<>>, <<>>)>>)

QueryConsensus == \E name \in QueryNames : GetPlayerConsensusScore(name)

NextConsensus == ScrapeRecs \/ QueryConsensus

SpecConsensus == InitConsensus /\ [][NextConsensus]_vars

-----------------------------------------------------------------------------
(* SpecWeb: recommendations, injuries and lineups, and integrate_web_data *)

InitWeb ==
    /\ aggregator = NewAggregator
    /\ recommender \in {NewRecommender(u) : u \in BOOLEAN}
    /\ network = NoNetwork
    /\ cache = NoCache
    /\ collected = {}
    /\ ret = [op |-> "init"]

ScrapeWeb ==
    \E outs \in WebRuns :
        /\ Len(aggregator.recommendations) + CountRecs(outs) <= MaxWebRecs
        /\ Len(aggregator.injury_news) + CountInjuries(outs) <= MaxInjuries
        /\ ScrapeAll(outs)

QueryWebScore == \E p \in WebPlayers : IntegrateWebData(p)

QueryInjury == \E p \in WebPlayers : GetInjuryStatus(p.full_name)

NextWeb == ScrapeWeb \/ LoadWebData \/ QueryWebScore \/ QueryInjury

SpecWeb == InitWeb /\ [][NextWeb]_vars

-----------------------------------------------------------------------------
(* SpecLineups: the predicted lineups and is_expected_to_start *)

ScrapeLineups == \E outs \in LineupRuns : ScrapeAll(outs)

QueryStart == \E name \in StarterNames : IsExpectedToStart(name)

NextLineups == ScrapeLineups \/ QueryStart

SpecLineups == InitConsensus /\ [][NextLineups]_vars

-----------------------------------------------------------------------------
(* SpecInjuries: the injury store and get_injury_status *)

\* most injury signals the store holds in SpecInjuries
MaxInjuryNews == 2

\* the injury signals a scraper may return: one player under two spellings and
\* two statuses, and two other players
InjurySignals ==
    {Injury(<<"a", "b">>, "out"), Injury(<<"a", "b">>, "doubtful"),
     Injury(<<"A", "B">>, "suspended"), Injury(<<"b">>, "unknown"),
     Injury(<<"b", "a">>, "out")}

\* the names asked about in SpecInjuries
InjuryQueries == {<<"a", "b">>, <<"B">>, <<"a", ".">>, <<"a", "a">>}

ScrapeInjuries ==
    \E i \in InjurySignals :
        /\ Len(aggregator.injury_news) < MaxInjuryNews
        /\ ScrapeAll(<<Scraper(<<>>, <<i>>, <<>>)>>)

QueryInjuryNews == \E name \in InjuryQueries : GetInjuryStatus(name)

NextInjuries == ScrapeInjuries \/ QueryInjuryNews

SpecInjuries == InitConsensus /\ [][NextInjuries]_vars

-----------------------------------------------------------------------------
(* SpecTransfer: suggest_transfers over the rosters the API may return *)

\* most num_transfers asked for
MaxTransfers == 2

\* the league: two clubs that meet in gameweek 1, the next gameweek, and a
\* third club that has no fixture
Teams == <<[id |-> 1, name |-> "T1", short_name |-> "T1"],
           [id |-> 2, name |-> "T2", short_name |-> "T2"],
           [id |-> 3, name |-> "T3", short_name |-> "T3"]>>
Events == <<[id |-> 1, is_current |-> FALSE, is_next |-> TRUE]>>
Fixtures == <<[event |-> 1, team_h |-> 1, team_a |-> 2],
              [event |-> 2, team_h |-> 2, team_a |-> 1]>>

\* the players' names, by id
PlayerNames == <<<<"a", "b">>, <<"A", "b">>, <<"b">>, <<"b", "a">>, <<"a">>, <<"B", "a">>>>

\* what element-summary answers for a player: the request fails, or it gives the
\* coming fixtures and the past matches
NoSummary == Nothing
EasyRun ==
    Some([fixtures |-> <<[difficulty |-> 2], [difficulty |-> 2]>>,
          history |-> <<[opponent_team |-> 2, total_points |-> 4],
                        [opponent_team |-> 2, total_points |-> 8],
                        [opponent_team |-> 1, total_points |-> 2]>>])

\* form, ict_index and selected_by_percent in tenths
Low == [form |-> 0, total_points |-> 0, ict_index |-> 0,
        selected_by_percent |-> 100, summary |-> NoSummary]
Mid == [form |-> 10, total_points |-> 0, ict_index |-> 400,
        selected_by_percent |-> 100, summary |-> NoSummary]
High == [form |-> 30, total_points |-> 40, ict_index |-> 0,
         selected_by_percent |-> 100, summary |-> EasyRun]

Kind(element_type, team, now_cost, status, stats) ==
    [element_type |-> element_type, team |-> team, now_cost |-> now_cost,
     status |-> status] @@ stats

\* the players a squad is drawn from, and the players outside it
SquadKinds ==
    {Kind(3, 1, 50, "a", Low), Kind(3, 2, 50, "a", Low),
     Kind(3, 1, 50, "a", Mid), Kind(4, 1, 50, "a", Low)}
CandidateKinds ==
    {Kind(3, 1, 55, "a", High), Kind(3, 2, 60, "a", High), Kind(3, 1, 50, "a", Mid),
     Kind(4, 2, 55, "a", High), Kind(3, 2, 50, "i", High)}
SquadSizes == {3, 4}
AllIds == 1..5

Element(id, kind) ==
    [id |-> id, full_name |-> PlayerNames[id], element_type |-> kind.element_type,
     team |-> kind.team, now_cost |-> kind.now_cost, status |-> kind.status,
     form |-> kind.form, total_points |-> kind.total_points,
     ict_index |-> kind.ict_index, selected_by_percent |-> kind.selected_by_percent]

\* the API when the players of ids squad_ids are the user's squad and 0.5 is in
\* the bank
Network(kinds, squad_ids) ==
    [bootstrap |-> Some([elements |-> [i \in DOMAIN kinds |-> Element(i, kinds[i])],
                         teams |-> Teams, events |-> Events]),
     fixtures |-> Some(Fixtures),
     entry |-> Some("entry"),
     picks |-> Some([bank |-> 5, event_transfers_cost |-> 0,
                     picks |-> squad_ids]),
     summary |-> [i \in DOMAIN kinds |-> kinds[i].summary]]

Roster(squad, others) ==
    [i \in AllIds |-> IF i <= Len(squad) THEN squad[i] ELSE others[i - Len(squad)]]

Rosters(squad_size) ==
    {Roster(squad, others) :
        squad \in [1..squad_size -> SquadKinds],
        others \in [1..(Len(PlayerNames) - 1 - squad_size) -> CandidateKinds]}

TransferNetworks ==
    UNION {{Network(kinds, [i \in 1..squad_size |-> i]) : kinds \in Rosters(squad_size)} :
              squad_size \in SquadSizes}

InitTransfer ==
    /\ aggregator = NewAggregator
    /\ recommender = NewRecommender(TRUE)
    /\ network \in TransferNetworks
    /\ cache = NoCache
    /\ collected = {}
    /\ ret = [op |-> "init"]

SuggestTransfers(num_transfers, position_filter, apply_raises) ==
    LET r == suggest_transfers(recommender, cache, network, aggregator,
                               num_transfers, position_filter, apply_raises)
    IN  /\ recommender' = r.self
        /\ cache' = r.files
        /\ ret' = [op |-> "suggest_transfers", num_transfers |-> num_transfers,
                   position_filter |-> position_filter,
                   raised |-> r.raised, val |-> r.value]
        /\ UNCHANGED <<aggregator, network, collected>>

\* the outcomes of apply that differ for this call: both when the call comes
\* to score a frame without rows, else one, as apply is then not in doubt
OutcomesAt(s, position_filter) ==
    IF ~s.raised /\ ScoresEmptyFrame(s.self, position_filter)
    THEN ApplyOutcomes ELSE {FALSE}

NextTransfer ==
    \E num_transfers \in 1..MaxTransfers, position_filter \in {None, "FWD"} :
        \E apply_raises \in
               OutcomesAt(EnsureSquad(EnsureFixtures(EnsurePlayers(
                              EnsureTeam(Running(recommender, cache), network),
                              network), network), network),
                          position_filter) :
            SuggestTransfers(num_transfers, position_filter, apply_raises)

SpecTransfer == InitTransfer /\ [][NextTransfer]_vars

-----------------------------------------------------------------------------
(* SpecCaptain: suggest_captain and suggest_vice_captain over a squad of three *)

\* largest top_n asked of suggest_captain
MaxTopN == 4

\* high form on an easy run, owned by 4.0%
Differential == [form |-> 30, total_points |-> 40, ict_index |-> 0,
                 selected_by_percent |-> 40, summary |-> EasyRun]
\* form 1.0 with 20 points in the season: total_points / max(form, 1) > 15
Steady == [form |-> 10, total_points |-> 20, ict_index |-> 0,
           selected_by_percent |-> 100, summary |-> NoSummary]

\* no form, the hardest next fixture and -1 point in the one past match
\* against club 1
Struggler == [form |-> 0, total_points |-> 0, ict_index |-> 0,
              selected_by_percent |-> 100,
              summary |-> Some([fixtures |-> <<[difficulty |-> 5]>>,
                                history |-> <<[opponent_team |-> 1,
                                               total_points |-> -1]>>])]

\* the squad is the whole roster: "ab", "Ab" and "b"
CaptainSquad == <<1, 2, 3>>

\* what each squad member can be: goalkeepers, midfielders and forwards of
\* the home club 1, the away club 2 and the club 3 without a fixture
CaptainKinds ==
    <<{Kind(3, 1, 50, "a", Low), Kind(1, 1, 50, "a", Steady),
       Kind(1, 2, 50, "a", Struggler), Kind(3, 2, 50, "a", Differential)},
      {Kind(3, 1, 50, "a", Low), Kind(1, 1, 100, "a", Mid),
       Kind(4, 2, 50, "a", Struggler), Kind(4, 2, 100, "a", High)},
      {Kind(3, 1, 50, "a", Low), Kind(3, 3, 50, "a", Low),
       Kind(3, 2, 50, "a", Differential), Kind(4, 2, 100, "a", High)}>>

CaptainNetworks ==
    {Network(kinds, CaptainSquad) :
        kinds \in {k \in [1..Len(CaptainSquad) -> UNION {CaptainKinds[i] : i \in 1..3}] :
                      \A i \in 1..Len(CaptainSquad) : k[i] \in CaptainKinds[i]}}
    \cup {NoNetwork}

\* what the one scraper of SpecCaptain returns
CaptainRecs ==
    {<<Rec(<<"a", "b">>, "captain", "positive")>>,
     <<Rec(<<"b">>, "transfer", "positive")>>,
     <<Rec(<<"a", "b">>, "avoid", "positive"), Rec(<<"b">>, "captain", "neutral")>>}

\* the captain names suggest_vice_captain is given; the empty one is no name
CaptainChoices == {<<>>, <<"a", "b">>, <<"A", "B">>, <<"B">>, <<"b", ".">>}

InitCaptain ==
    /\ aggregator = NewAggregator
    /\ recommender = NewRecommender(TRUE)
    /\ network \in CaptainNetworks
    /\ cache = NoCache
    /\ collected = {}
    /\ ret = [op |-> "init"]

ScrapeCaptainRecs ==
    /\ aggregator = NewAggregator
    /\ \E recs \in CaptainRecs : ScrapeAll(<<Scraper(recs, <<>>, <<>>)>>)

SuggestCaptain(top_n) ==
    LET r == suggest_captain(recommender, cache, network, aggregator, top_n)
    IN  /\ recommender' = r.self
        /\ cache' = r.files
        /\ ret' = [op |-> "suggest_captain", top_n |-> top_n,
                   raised |-> r.raised, val |-> r.value]
        /\ UNCHANGED <<aggregator, network, collected>>

SuggestViceCaptain(captain_choice) ==
    LET r == suggest_vice_captain(recommender, cache, network, aggregator, captain_choice)
    IN  /\ recommender' = r.self
        /\ cache' = r.files
        /\ ret' = [op |-> "suggest_vice_captain", captain_choice |-> captain_choice,
                   raised |-> r.raised, val |-> r.value]
        /\ UNCHANGED <<aggregator, network, collected>>

NextCaptain ==
    \/ ScrapeCaptainRecs
    \/ LoadWebData
    \/ \E top_n \in 1..MaxTopN : SuggestCaptain(top_n)
    \/ \E captain_choice \in CaptainChoices : SuggestViceCaptain(captain_choice)

SpecCaptain == InitCaptain /\ [][NextCaptain]_vars

-----------------------------------------------------------------------------
(* SpecScore: calculate_player_score with and without web data *)

\* most recommendation signals the store holds in SpecScore
MaxScoreRecs == 2

\* the scenario of the specification: form 8.0, five fixtures of difficulty 2
\* before a harder one, 200 points, ict 100, no match in the history
Scenario ==
    [form |-> 80, total_points |-> 200, ict_index |-> 1000, selected_by_percent |-> 100,
     summary |-> Some([fixtures |-> <<[difficulty |-> 2], [difficulty |-> 2],
                                      [difficulty |-> 2], [difficulty |-> 2],
                                      [difficulty |-> 2], [difficulty |-> 5]>>,
                       history |-> <<>>])]
\* every component is 6.0 against opponent 1; the history against opponent 3
\* passes the cap
Even ==
    [form |-> 60, total_points |-> 120, ict_index |-> 1200, selected_by_percent |-> 100,
     summary |-> Some([fixtures |-> <<[difficulty |-> 2], [difficulty |-> 4]>>,
                       history |-> <<[opponent_team |-> 1, total_points |-> 3],
                                     [opponent_team |-> 2, total_points |-> 2],
                                     [opponent_team |-> 1, total_points |-> 5],
                                     [opponent_team |-> 3, total_points |-> 8]>>])]
\* negative form, points and history, and an ict index above the cap
Negative ==
    [form |-> -10, total_points |-> -2, ict_index |-> 2500, selected_by_percent |-> 100,
     summary |-> Some([fixtures |-> <<[difficulty |-> 5]>>,
                       history |-> <<[opponent_team |-> 1, total_points |-> -1]>>])]

\* the players scored in SpecScore, by id: "ab", "Ab", "b" and "ba"
ScoreRoster ==
    <<Kind(3, 1, 50, "a", Scenario), Kind(3, 1, 50, "a", Even),
      Kind(3, 2, 50, "a", Low), Kind(3, 2, 50, "a", Negative)>>

\* next_opponent: no opponent (None or NaN), or a team id
ScoreOpponents == {NoOpponent, 1, 2, 3}

ScoreSignals ==
    {Rec(<<"a", "b">>, "captain", "positive"), Rec(<<"b", "a">>, "avoid", "positive")}

InitScore ==
    /\ aggregator = NewAggregator
    /\ recommender \in {NewRecommender(u) : u \in BOOLEAN}
    /\ network = Network(ScoreRoster, <<1>>)
    /\ cache = NoCache
    /\ collected = {}
    /\ ret = [op |-> "init"]

ScrapeScoreRecs ==
    \E r \in ScoreSignals :
        /\ Len(aggregator.recommendations) < MaxScoreRecs
        /\ ScrapeAll(<<Scraper(<<r>>, <<>>, <<>>)>>)

CalculatePlayerScore(player_id, next_opponent) ==
    /\ ret' = [op |-> "calculate_player_score", player_id |-> player_id,
               next_opponent |-> next_opponent,
               val |-> calculate_player_score(
                           recommender, aggregator, network,
                           PlayerRow(network.bootstrap[1].elements[player_id], Teams),
                           next_opponent)]
    /\ UNCHANGED <<aggregator, recommender, network, cache, collected>>

NextScore ==
    \/ ScrapeScoreRecs
    \/ LoadWebData
    \/ \E player_id \in DOMAIN ScoreRoster, next_opponent \in ScoreOpponents :
          CalculatePlayerScore(player_id, next_opponent)

SpecScore == InitScore /\ [][NextScore]_vars

-----------------------------------------------------------------------------
(* Claims *)

Enabled(self) == self.use_web_data /\ self.web_aggregator # None

\* C1: integrate_web_data returns exactly 0 for a player whose injury status is
\* "out" or "suspended", whatever the consensus record (score and number of
\* mentions) and whether or not the player is in a predicted lineup.
C1_OutOrSuspendedIsZero ==
    (/\ ret.op = "integrate_web_data"
     /\ Enabled(recommender)
     /\ get_injury_status(aggregator, ret.name) \in {"out", "suspended"})
    => ret.val = 0

\* the weight table and the sentiment values as the claim C7 states them (the
\* weights doubled, so that they are whole numbers)
RefWeightDoubled(t) ==
    CASE t = "captain" -> 6
      [] t = "essential" -> 5
      [] t = "transfer" -> 4
      [] t = "differential" -> 3
      [] t = "general" -> 2
      [] t = "budget" -> 2
      [] t = "avoid" -> -4

RefSentimentValue(s) ==
    CASE s = "positive" -> 1
      [] s = "neutral" -> 0
      [] s = "negative" -> -1

\* the positions of the store the query selects
Selected(recs, name) == {i \in 1..Len(recs) : str_contains(recs[i].player_name, name)}

RECURSIVE RefSumDoubled(_, _)
RefSumDoubled(recs, S) ==
    IF S = {} THEN 0
    ELSE LET i == CHOOSE j \in S : TRUE
         IN  RefWeightDoubled(recs[i].recommendation_type)
                * (RefSentimentValue(recs[i].sentiment) + 1)
             + RefSumDoubled(recs, S \ {i})

\* C7: get_player_consensus_score(name) is the reference computation: with no
\* selected signal the result is score 0, count 0, sentiment neutral; otherwise
\* mention_count is the number n of selected signals and consensus_score is the
\* sum of weight(type) * (sentiment_value + 1) over them divided by n, with the
\* claim's weight table; one positive captain signal gives 6.0, 1, positive.
C7_ConsensusIsReference ==
    ret.op = "get_player_consensus_score" =>
        LET recs == aggregator.recommendations
            S == Selected(recs, ret.name)
            n == Cardinality(S)
        IN  IF n = 0
            THEN ret.val = [consensus_score |-> 0, mention_count |-> 0,
                            sentiment |-> "neutral"]
            ELSE /\ ret.val.mention_count = n
                 /\ 2 * n * ret.val.consensus_score = RefSumDoubled(recs, S) * One
                 /\ (/\ n = 1
                     /\ \A i \in S : /\ recs[i].recommendation_type = "captain"
                                      /\ recs[i].sentiment = "positive")
                    => /\ ret.val.consensus_score = 6 * One
                       /\ ret.val.sentiment = "positive"

\* C7 witness: a query that selected two signals of different weight, a positive
\* captain signal and a neutral avoid signal: (6.0 - 2.0) / 2 = 2.0
C7_Witness ==
    /\ ret.op = "get_player_consensus_score"
    /\ ret.val.mention_count = 2
    /\ ret.val.consensus_score = 2 * One
    /\ \E i \in Selected(aggregator.recommendations, ret.name) :
            aggregator.recommendations[i].recommendation_type = "avoid"

C9_SelectsSubstringMatches ==
    ret.op = "get_player_consensus_score" =>
        ret.val.mention_count =
            Cardinality({i \in 1..Len(aggregator.recommendations) :
                InStr(lower(ret.name), lower(aggregator.recommendations[i].player_name))})

\* C10: after scrape_all, is_expected_to_start(name) is true if and only if some
\* lineup returned by some scraper, for any team, holds a starter whose name
\* contains name case-insensitively: no collected lineup is dropped.
C10_EveryLineupContributes ==
    ret.op = "is_expected_to_start" =>
        (ret.val <=> \E starter \in collected : InStr(lower(ret.name), lower(starter)))

-----------------------------------------------------------------------------
(* Claims on suggest_transfers (SpecTransfer) *)

\* the last call was suggest_transfers and it returned its list
TransfersReturned == ret.op = "suggest_transfers" /\ ~ret.raised

SquadIds ==
    {recommender.current_team[1].squad_ids[k] :
        k \in 1..Len(recommender.current_team[1].squad_ids)}
PlayerIds == {recommender.players_df[1][k].id : k \in 1..Len(recommender.players_df[1])}

\* the row of players_df with this id
RowOf(id) ==
    recommender.players_df[1][CHOOSE k \in 1..Len(recommender.players_df[1]) :
                                  recommender.players_df[1][k].id = id]

\* the player score suggest_transfers gives the player
ScoreOf(id) ==
    calculate_player_score(recommender, aggregator, network, RowOf(id),
        NextOpponent(get_fixtures_for_gameweek(recommender, recommender.current_gameweek),
                     RowOf(id).team, NoOpponent))

\* squad members of the club of player in_id, once out_id has left and in_id joined
ClubAfter(out_id, in_id) ==
    Cardinality({id \in (SquadIds \ {out_id}) \cup {in_id} :
                    RowOf(id).team = RowOf(in_id).team})
ClubBefore(in_id) ==
    Cardinality({id \in SquadIds : RowOf(id).team = RowOf(in_id).team})

\* C2: every returned suggestion whose incoming player's club differs from the
\* outgoing player's leaves at most 3 squad members of the incoming club after
\* the swap: the incoming club held fewer than 3 before it
C2_MaxThreePerClub ==
    TransfersReturned =>
        \A i \in 1..Len(ret.val) :
            RowOf(ret.val[i].in_player_id).team # RowOf(ret.val[i].out_player_id).team
            => /\ ClubAfter(ret.val[i].out_player_id, ret.val[i].in_player_id) <= 3
               /\ ClubBefore(ret.val[i].in_player_id) < 3

\* a suggestion between two clubs that brings the incoming club to exactly 3
C2_Witness ==
    /\ TransfersReturned
    /\ \E i \in 1..Len(ret.val) :
        /\ RowOf(ret.val[i].in_player_id).team # RowOf(ret.val[i].out_player_id).team
        /\ ClubAfter(ret.val[i].out_player_id, ret.val[i].in_player_id) = 3

\* C3: every returned suggestion has improvement = in_score - out_score, the
\* two being the players' scores, and the improvement is strictly above 0.5
C3_ImprovementAboveHalf ==
    TransfersReturned =>
        \A i \in 1..Len(ret.val) :
            /\ ret.val[i].in_score = ScoreOf(ret.val[i].in_player_id)
            /\ ret.val[i].out_score = ScoreOf(ret.val[i].out_player_id)
            /\ ret.val[i].improvement = ret.val[i].in_score - ret.val[i].out_score
            /\ 2 * ret.val[i].improvement > One

\* a pair that passes every filter of the loop but the improvement test
Eligible(out_id, in_id, position_filter) ==
    /\ out_id \in SquadIds
    /\ in_id \in PlayerIds \ SquadIds
    /\ RowOf(in_id).status = "a"
    /\ RowOf(in_id).position_name = RowOf(out_id).position_name
    /\ position_filter # None => RowOf(in_id).position_name = position_filter
    /\ RowOf(in_id).value <= recommender.budget[1] + RowOf(out_id).now_cost
    /\ RowOf(in_id).team # RowOf(out_id).team => ClubBefore(in_id) < 3

IsReturned(out_id, in_id) ==
    \E i \in 1..Len(ret.val) :
        ret.val[i].out_player_id = out_id /\ ret.val[i].in_player_id = in_id

\* an eligible pair whose improvement is exactly 0.5 is left out of a list that
\* was not cut short, and a pair with a larger improvement is in it
C3_Witness ==
    /\ TransfersReturned
    /\ ret.val # <<>>
    /\ Len(ret.val) < ret.num_transfers * ResultsPerTransfer
    /\ \E out_id \in SquadIds, in_id \in PlayerIds :
        /\ Eligible(out_id, in_id, ret.position_filter)
        /\ 2 * (ScoreOf(in_id) - ScoreOf(out_id)) = One
        /\ ~IsReturned(out_id, in_id)

\* the pairs the loop accepts: eligible and improving by more than 0.5
AcceptedPairs ==
    {pair \in SquadIds \X PlayerIds :
        /\ Eligible(pair[1], pair[2], ret.position_filter)
        /\ 2 * (ScoreOf(pair[2]) - ScoreOf(pair[1])) > One}

\* C4: at most num_transfers * 5 suggestions are returned, in non-increasing
\* order of improvement, and they are the top ones: as many as the limit allows,
\* and no accepted pair left out improves more than a returned one
C4_TopSuggestionsSorted ==
    TransfersReturned =>
        /\ Len(ret.val) <= ret.num_transfers * 5
        /\ \A i \in 1..(Len(ret.val) - 1) :
              ret.val[i].improvement >= ret.val[i + 1].improvement
        /\ Len(ret.val) = Min(ret.num_transfers * 5, Cardinality(AcceptedPairs))
        /\ \A pair \in AcceptedPairs :
              ~IsReturned(pair[1], pair[2])
              => \A i \in 1..Len(ret.val) :
                    ScoreOf(pair[2]) - ScoreOf(pair[1]) <= ret.val[i].improvement

\* more pairs are accepted than the limit allows, and the list that is returned
\* is full and holds different improvements
C4_Witness ==
    /\ TransfersReturned
    /\ Cardinality(AcceptedPairs) > ret.num_transfers * 5
    /\ Len(ret.val) = ret.num_transfers * 5
    /\ ret.val[1].improvement > ret.val[Len(ret.val)].improvement

\* C5: in every returned suggestion the outgoing player is in the squad, the
\* incoming player is active, outside the squad, of the outgoing player's
\* position and costs at most the bank plus the outgoing player's price; with a
\* position filter only that position appears
C5_SuggestionIsFeasible ==
    TransfersReturned =>
        \A i \in 1..Len(ret.val) :
            /\ ret.val[i].out_player_id \in SquadIds
            /\ ret.val[i].in_player_id \in PlayerIds \ SquadIds
            /\ RowOf(ret.val[i].in_player_id).status = "a"
            /\ RowOf(ret.val[i].in_player_id).position_name = ret.val[i].position
            /\ RowOf(ret.val[i].out_player_id).position_name = ret.val[i].position
            /\ RowOf(ret.val[i].in_player_id).now_cost
                  <= recommender.budget[1] + RowOf(ret.val[i].out_player_id).now_cost
            /\ ret.position_filter # None => ret.val[i].position = ret.position_filter

\* under a position filter a suggestion is returned whose incoming player costs
\* exactly the bank plus the outgoing price, while a player of another
\* position, a player too dear and an inactive player are on the roster
C5_Witness ==
    /\ TransfersReturned
    /\ ret.position_filter = "FWD"
    /\ \E i \in 1..Len(ret.val) :
          ret.val[i].in_price = recommender.budget[1] + ret.val[i].out_price
    /\ \E id \in PlayerIds \ SquadIds : RowOf(id).position_name = "MID"
    /\ \E id \in PlayerIds \ SquadIds :
          \/ RowOf(id).status # "a"
          \/ \A out_id \in SquadIds :
                RowOf(id).now_cost > recommender.budget[1] + RowOf(out_id).now_cost

-----------------------------------------------------------------------------
(* Claims on suggest_vice_captain (SpecCaptain) *)

\* two names are equal when case is ignored
SameIgnoringCase(a, b) ==
    /\ Len(a) = Len(b)
    /\ \A k \in 1..Len(a) : LowerChar(a[k]) = LowerChar(b[k])

\* C6: whenever suggest_vice_captain is given a captain name and returns a
\* pick, the pick's player name differs from the captain name when case is
\* ignored
C6_ViceIsNotCaptain ==
    (/\ ret.op = "suggest_vice_captain"
     /\ ~ret.raised
     /\ ret.captain_choice # <<>>
     /\ ret.val # <<>>)
    => ~SameIgnoringCase(ret.val[1].player_name, ret.captain_choice)

\* a pick is returned for a captain name that is, in another spelling of case,
\* the name of the player who is picked when no captain is named
C6_Witness ==
    /\ ret.op = "suggest_vice_captain"
    /\ ~ret.raised
    /\ ret.captain_choice # <<>>
    /\ ret.val # <<>>
    /\ SameIgnoringCase(
           suggest_vice_captain(recommender, cache, network, aggregator, <<>>)
               .value[1].player_name,
           ret.captain_choice)
    /\ suggest_vice_captain(recommender, cache, network, aggregator, <<>>)
           .value[1].player_name # ret.captain_choice

-----------------------------------------------------------------------------
(* Claims on get_injury_status (SpecInjuries) *)

\* the positions of the injury store whose player_name contains name as a
\* case-insensitive substring
InjuryMatches(name) ==
    {i \in 1..Len(aggregator.injury_news) :
        InStr(lower(name), lower(aggregator.injury_news[i].player_name))}

\* C11: get_injury_status(name) returns the status of the first stored injury
\* signal, in insertion order, whose player_name contains name as a
\* case-insensitive substring, and None when the store is empty or none matches
C11_FirstMatchingInjury ==
    ret.op = "get_injury_status" =>
        IF InjuryMatches(ret.name) = {}
        THEN ret.val = None
        ELSE ret.val =
                aggregator.injury_news[
                    CHOOSE i \in InjuryMatches(ret.name) :
                        \A j \in InjuryMatches(ret.name) : i <= j].status

-----------------------------------------------------------------------------
(* Claims on calculate_player_score (SpecScore) *)

\* the inputs of the player scored by the last call, as the API gives them
Scored == ScoreRoster[ret.player_id]

\* the total of a field over the positions S of a sequence
RECURSIVE RefTotal(_, _, _)
RefTotal(seq, field, S) ==
    IF S = {} THEN 0
    ELSE LET i == CHOOSE j \in S : TRUE
         IN  seq[i][field] + RefTotal(seq, field, S \ {i})

\* the component scores as the specification defines them, times One
RefFormScore == IF Scored.form > 0 THEN (Scored.form * One) \div 10 ELSE 0

\* the positions of the next 5 fixtures known for the player
RefNextFive ==
    IF Scored.summary = Nothing THEN {}
    ELSE {i \in 1..Len(Scored.summary[1].fixtures) : i <= 5}

RefFixtureScore ==
    IF RefNextFive = {} THEN 6 * One
    ELSE 12 * One
         - (2 * One * RefTotal(Scored.summary[1].fixtures, "difficulty", RefNextFive))
           \div Cardinality(RefNextFive)

\* the positions of the history that are matches against the next opponent
RefMatches ==
    IF Scored.summary = Nothing \/ ret.next_opponent = NoOpponent THEN {}
    ELSE {i \in 1..Len(Scored.summary[1].history) :
             Scored.summary[1].history[i].opponent_team = ret.next_opponent}

RefHistoricalScore ==
    IF RefMatches = {} THEN 0
    ELSE Min((3 * One * RefTotal(Scored.summary[1].history, "total_points", RefMatches))
             \div (2 * Cardinality(RefMatches)),
             10 * One)

RefPointsScore == Min((Scored.total_points * One) \div 20, 10 * One)

RefIctScore ==
    IF Scored.ict_index > 0 THEN Min((Scored.ict_index * One) \div 200, 10 * One) ELSE 0

\* the web score of the player scored, by integrate_web_data
RefWebScore ==
    integrate_web_data(recommender, aggregator, [full_name |-> PlayerNames[ret.player_id]])

\* 100 times the weighted sums of the two columns
RefPlainTimes100 ==
    30 * RefFormScore + 25 * RefFixtureScore + 20 * RefHistoricalScore
    + 15 * RefPointsScore + 10 * RefIctScore
RefWebTimes100 ==
    25 * RefFormScore + 20 * RefFixtureScore + 15 * RefHistoricalScore
    + 12 * RefPointsScore + 8 * RefIctScore + 20 * RefWebScore

\* C12: the weights of calculate_player_score are 0.25, 0.20, 0.15, 0.12, 0.08
\* and 0.20 with web integration and 0.30, 0.25, 0.20, 0.15 and 0.10 without,
\* and each column sums to exactly 1.0: a player whose component scores are all
\* the same value gets that value as score
C12_WeightsSumToOne ==
    /\ WebWeights = [form |-> 25, fixture |-> 20, historical |-> 15, points |-> 12,
                     ict |-> 8, web |-> 20]
    /\ PlainWeights = [form |-> 30, fixture |-> 25, historical |-> 20, points |-> 15,
                       ict |-> 10]
    /\ WebWeights.form + WebWeights.fixture + WebWeights.historical + WebWeights.points
       + WebWeights.ict + WebWeights.web = 100
    /\ PlainWeights.form + PlainWeights.fixture + PlainWeights.historical
       + PlainWeights.points + PlainWeights.ict = 100
    /\ (/\ ret.op = "calculate_player_score"
        /\ {RefFixtureScore, RefHistoricalScore, RefPointsScore, RefIctScore}
              = {RefFormScore}
        /\ Enabled(recommender) => RefWebScore = RefFormScore)
       => ret.val = RefFormScore

\* with web integration enabled a player is scored whose six component scores
\* are all 6.0
C12_Witness ==
    /\ ret.op = "calculate_player_score"
    /\ Enabled(recommender)
    /\ {RefFormScore, RefFixtureScore, RefHistoricalScore, RefPointsScore, RefIctScore,
        RefWebScore} = {6 * One}
    /\ ret.val = 6 * One

\* C13: calculate_player_score uses the with-web column exactly when
\* use_web_data is true and an aggregator has been loaded; in every other case
\* it uses the without-web column, and the score is the same for every content
\* of the web signal store
C13_WebColumnSwitch ==
    ret.op = "calculate_player_score" =>
        IF recommender.use_web_data /\ recommender.web_aggregator # None
        THEN 100 * ret.val = RefWebTimes100
        ELSE /\ 100 * ret.val = RefPlainTimes100
             /\ ret.val = calculate_player_score(
                              recommender, NewAggregator, network,
                              PlayerRow(network.bootstrap[1].elements[ret.player_id], Teams),
                              ret.next_opponent)

\* use_web_data is true but no aggregator is loaded, the store holds a signal
\* for the player, and the two columns differ on the player
C13_Witness ==
    /\ ret.op = "calculate_player_score"
    /\ recommender.use_web_data
    /\ recommender.web_aggregator = None
    /\ get_player_consensus_score(aggregator, PlayerNames[ret.player_id]).mention_count > 0
    /\ 100 * ret.val = RefPlainTimes100
    /\ RefPlainTimes100 # RefWebTimes100

\* the player scored is the one of the specification's scenario
IsScenario ==
    /\ Scored.form = 80
    /\ Scored.total_points = 200
    /\ Scored.ict_index = 1000
    /\ RefFixtureScore = 8 * One
    /\ RefMatches = {}

\* C14: with web integration disabled calculate_player_score equals
\* 0.30*form_score + 0.25*fixture_score + 0.20*historical_score
\* + 0.15*points_score + 0.10*ict_score with the components of the
\* specification; for form 8.0, average difficulty 2.0 over the next 5 fixtures,
\* 200 points, ict 100 and no history the result is 6.4
C14_PlainScoreIsReference ==
    (ret.op = "calculate_player_score" /\ ~Enabled(recommender)) =>
        /\ 100 * ret.val = RefPlainTimes100
        /\ IsScenario => 10 * ret.val = 64 * One

\* the scenario is scored with web integration disabled
C14_Witness ==
    /\ ret.op = "calculate_player_score"
    /\ ~Enabled(recommender)
    /\ IsScenario
    /\ ret.next_opponent # NoOpponent
    /\ 10 * ret.val = 64 * One

-----------------------------------------------------------------------------
(* Claims on integrate_web_data (SpecWeb) *)

\* the steps of the web score in the order the specification gives them
RefAfterInjury(consensus_score, injury_status) ==
    IF injury_status \in {"out", "suspended"} THEN 0
    ELSE IF injury_status = "doubtful" THEN consensus_score \div 2
    ELSE consensus_score
RefAfterStart(score, injury_status, expected_start) ==
    IF expected_start /\ injury_status \notin {"out", "suspended"}
    THEN score + (3 * One) \div 2 ELSE score
RefAfterMentions(score, mention_count) ==
    IF mention_count >= 3 THEN score + One ELSE score
RefClamp(score) == IF score < 0 THEN 0 ELSE IF score > 10 * One THEN 10 * One ELSE score

\* C15: with web integration enabled integrate_web_data starts from
\* consensus_score, sets it to 0 if the injury is out or suspended, halves it
\* if doubtful, adds 1.5 if the player is expected to start and is not out or
\* suspended, adds 1.0 if mention_count >= 3 and clamps to [0, 10]; the result
\* is in [0, 10] also for a negative consensus_score
C15_WebScoreSteps ==
    (ret.op = "integrate_web_data" /\ Enabled(recommender)) =>
        /\ ret.val =
              RefClamp(RefAfterMentions(
                  RefAfterStart(
                      RefAfterInjury(
                          get_player_consensus_score(aggregator, ret.name).consensus_score,
                          get_injury_status(aggregator, ret.name)),
                      get_injury_status(aggregator, ret.name),
                      is_expected_to_start(aggregator, ret.name)),
                  get_player_consensus_score(aggregator, ret.name).mention_count))
        /\ 0 <= ret.val
        /\ ret.val <= 10 * One

\* every step acts: a doubtful player with three positive captain signals who
\* is in a predicted lineup gets 6.0 / 2 + 1.5 + 1.0 = 5.5
C15_Witness ==
    /\ ret.op = "integrate_web_data"
    /\ Enabled(recommender)
    /\ get_injury_status(aggregator, ret.name) = "doubtful"
    /\ is_expected_to_start(aggregator, ret.name)
    /\ get_player_consensus_score(aggregator, ret.name).mention_count >= 3
    /\ get_player_consensus_score(aggregator, ret.name).consensus_score = 6 * One
    /\ 2 * ret.val = 11 * One

-----------------------------------------------------------------------------
(* Claims on suggest_captain and suggest_vice_captain (SpecCaptain) *)

\* two returned candidates have the same inputs to suggest_captain but for
\* the position: the same club, hence the same opponent and venue, a fixture
\* of difficulty 1 to 5, the same form, history, web signals and price
SameCaptainInputs(p, q) ==
    /\ p.team = q.team
    /\ p.is_home = q.is_home
    /\ p.is_home \in {"True", "False"}
    /\ network.summary[p.player_id] = network.summary[q.player_id]
    /\ get_player_fixtures(network, p.player_id, 1) # <<>>
    /\ p.fixture_difficulty \in 1..5
    /\ p.form = q.form
    /\ p.total_points = q.total_points
    /\ p.selected_by = q.selected_by
    /\ p.price = q.price
    /\ WebCaptain(recommender, aggregator, p.player_name)
           = WebCaptain(recommender, aggregator, q.player_name)

\* C16: of two squad members with the same inputs to suggest_captain except
\* the position, the goalkeeper has a strictly lower captain_score than the
\* forward
C16_GoalkeeperBelowForward ==
    (ret.op = "suggest_captain" /\ ~ret.raised) =>
        \A i, j \in DOMAIN ret.val :
            (/\ ret.val[i].position = "GK"
             /\ ret.val[j].position = "FWD"
             /\ SameCaptainInputs(ret.val[i], ret.val[j]))
            => ret.val[i].captain_score < ret.val[j].captain_score

\* the gameweek's fixtures, as suggest_captain reads them
GameweekFixtures == get_fixtures_for_gameweek(recommender, recommender.current_gameweek)

\* the member's club is the home side of a fixture of the gameweek
RefHomeSide(id) ==
    \E k \in DOMAIN GameweekFixtures : GameweekFixtures[k].team_h = RowOf(id).team

\* fixture_score of the next single fixture, 5.0 if unknown
RefCaptainFixture(id) ==
    IF get_player_fixtures(network, id, 1) = <<>> THEN 5 * One
    ELSE ((6 - get_player_fixtures(network, id, 1)[1].difficulty) * 10 * One) \div 5

\* historical_score against the gameweek's opponent
RefCaptainHistory(id) ==
    Min((get_player_history_vs_team(
             network, id,
             NextOpponent(GameweekFixtures, RowOf(id).team, NoOpponent)).avg_points * 3)
        \div 2, 10 * One)

\* n, the captain-type signals that match the player
RefCaptainSignals(name) ==
    Cardinality({k \in DOMAIN aggregator.recommendations :
                    /\ aggregator.recommendations[k].recommendation_type = "captain"
                    /\ str_contains(aggregator.recommendations[k].player_name, name)})

\* web_captain_score: min(10, 7 + 1.5 n) with n >= 1 captain signals, else
\* min(1.2 * consensus_score, 10) with any mention, else 5.0
RefWebCaptain(name) ==
    IF recommender.web_aggregator = None THEN 5 * One
    ELSE IF RefCaptainSignals(name) >= 1
    THEN Min(10 * One, 7 * One + (RefCaptainSignals(name) * 3 * One) \div 2)
    ELSE IF get_player_consensus_score(aggregator, name).mention_count > 0
    THEN Min((get_player_consensus_score(aggregator, name).consensus_score * 12) \div 10,
             10 * One)
    ELSE 5 * One

\* the position factor in tenths
RefPositionFactor(position) ==
    CASE position = "FWD" -> 12
      [] position = "MID" -> 11
      [] position = "DEF" -> 9
      [] position = "GK" -> 5

\* 0.40 fixture + 0.25 form + 0.20 history + 0.15 web
RefCaptainWeighted(id) ==
    (40 * RefCaptainFixture(id) + 25 * RowOf(id).form_numeric
     + 20 * RefCaptainHistory(id) + 15 * RefWebCaptain(RowOf(id).full_name)) \div 100

\* the weighted sum, then + 0.5 if home, times the position factor, + 0.5 if
\* the price is 10.0 or more
RefCaptainScore(id, home) ==
    ((RefCaptainWeighted(id) + (IF home THEN One \div 2 ELSE 0))
     * RefPositionFactor(RowOf(id).position_name)) \div 10
    + (IF RowOf(id).value >= 100 THEN One \div 2 ELSE 0)

\* every returned candidate has the reference score
CaptainScoresAreReference ==
    \A k \in DOMAIN ret.val :
        ret.val[k].captain_score
            = RefCaptainScore(ret.val[k].player_id, RefHomeSide(ret.val[k].player_id))

\* C17: the captain_score suggest_captain gives a squad member is the
\* reference: the weighted sum of fixture, form, history and web captaincy
\* score, then + 0.5 if home, times the position factor, + 0.5 if the price is
\* 10.0 or more
C17_CaptainScoreIsReference ==
    (ret.op = "suggest_captain" /\ ~ret.raised) => CaptainScoresAreReference

\* a returned candidate whose score is not the one without the home bonus
\* plays at home
HomeBonusOnlyAtHome ==
    \A k \in DOMAIN ret.val :
        ret.val[k].captain_score # RefCaptainScore(ret.val[k].player_id, FALSE)
            => RefHomeSide(ret.val[k].player_id)

\* C18: suggest_captain adds the home bonus to a member's captain_score only
\* if the member's club is the home side of a fixture of the gameweek; a
\* member whose club plays away or has no fixture gets no home bonus
C18_HomeBonusOnlyAtHome ==
    (ret.op = "suggest_captain" /\ ~ret.raised) => HomeBonusOnlyAtHome

\* the candidates of all squad members, in squad order
AllCaptainCandidates ==
    CaptainCandidates(recommender, aggregator, network, SquadRows(recommender),
                      GameweekFixtures)

\* where the squad member with this id stands in the squad
SquadIndex(all, id) == CHOOSE i \in DOMAIN all : all[i].player_id = id

\* val is the top_n of the candidates all
TopCaptainsOf(all, val, top_n) ==
    /\ Len(val) = Min(top_n, Len(all))
    /\ \A k \in DOMAIN val : \E i \in DOMAIN all : val[k] = all[i]
    /\ \A k, l \in DOMAIN val :
          k < l =>
              /\ val[k].player_id # val[l].player_id
              /\ val[k].captain_score >= val[l].captain_score
              /\ val[k].captain_score = val[l].captain_score
                     => SquadIndex(all, val[k].player_id) < SquadIndex(all, val[l].player_id)
    /\ \A i \in DOMAIN all :
          all[i].player_id \notin {val[k].player_id : k \in DOMAIN val}
              => \A k \in DOMAIN val : all[i].captain_score <= val[k].captain_score

TopCaptains ==
    \A all \in {AllCaptainCandidates} : TopCaptainsOf(all, ret.val, ret.top_n)

\* C19: suggest_captain(top_n) returns min(top_n, squad size) candidates, one
\* per distinct squad member, by non-increasing captain_score, members of equal
\* captain_score in squad order, and no member left out has a higher
\* captain_score than a member returned
C19_TopCaptainsInOrder ==
    (ret.op = "suggest_captain" /\ ~ret.raised) => TopCaptains

\* suggest_captain(2) has just returned two members of equal captain_score
\* from a squad of three whose third member has a lower captain_score
C19_Witness ==
    /\ ret.op = "suggest_captain"
    /\ ~ret.raised
    /\ ret.top_n = 2
    /\ Len(ret.val) = 2
    /\ Len(AllCaptainCandidates) = 3
    /\ ret.val[1].captain_score = ret.val[2].captain_score
    /\ \E i \in DOMAIN AllCaptainCandidates :
          AllCaptainCandidates[i].captain_score < ret.val[2].captain_score

\* the top 15 captain candidates other than the supplied captain, in the
\* order of suggest_captain
RefViceOptions ==
    SelectSeq(suggest_captain(recommender, cache, network, aggregator, 15).value,
              LAMBDA c : ret.captain_choice = <<>>
                         \/ ~SameIgnoringCase(c.player_name, ret.captain_choice))

\* captain_score, times 0.8 if the ownership is below 5.0, then + 0.5 if
\* total_points / max(form, 1) > 15
RefViceScore(c) ==
    (IF c.selected_by < 5 * One THEN (8 * c.captain_score) \div 10 ELSE c.captain_score)
    + (IF c.total_points * One > 15 * (IF c.form > One THEN c.form ELSE One)
       THEN One \div 2 ELSE 0)

\* pick is the first of the options opts with the highest vice_score, or
\* nothing when there is no option
VicePickOf(opts, pick) ==
    IF opts = <<>> THEN pick = <<>>
    ELSE /\ pick # <<>>
         /\ \E i \in DOMAIN opts :
               /\ pick[1].player_id = opts[i].player_id
               /\ pick[1].captain_score = opts[i].captain_score
               /\ pick[1].vice_score = RefViceScore(opts[i])
               /\ \A j \in DOMAIN opts :
                     /\ RefViceScore(opts[j]) <= RefViceScore(opts[i])
                     /\ j < i => RefViceScore(opts[j]) < RefViceScore(opts[i])

\* C20: suggest_vice_captain picks, among the top 15 captain candidates other
\* than the supplied captain, the one of highest vice_score (captain_score,
\* times 0.8 if ownership is below 5.0, then + 0.5 if total_points /
\* max(form, 1) > 15), and among equal vice_scores the one ranked earlier by
\* captain_score
C20_VicePickIsReference ==
    (ret.op = "suggest_vice_captain" /\ ~ret.raised) =>
        \A opts \in {RefViceOptions} : VicePickOf(opts, ret.val)

\* the pick has the vice_score of another option that stands before it in the
\* squad but after it by captain_score, and a third squad member is left out
\* as the captain
C20_Witness ==
    /\ ret.op = "suggest_vice_captain"
    /\ ~ret.raised
    /\ ret.captain_choice # <<>>
    /\ ret.val # <<>>
    /\ \A opts \in {RefViceOptions} :
          /\ Len(opts) = 2
          /\ opts[1].player_id = ret.val[1].player_id
          /\ RefViceScore(opts[1]) = RefViceScore(opts[2])
          /\ opts[1].captain_score > opts[2].captain_score
          /\ opts[2].player_id < opts[1].player_id
          /\ Len(suggest_captain(recommender, cache, network, aggregator, 15).value) = 3

-----------------------------------------------------------------------------
(* SpecEmpty: the three suggestions over squads of no, one and two players *)

\* three players, each a midfielder without form or a forward in form, of
\* whom the first none, one or two are the squad
EmptyKinds == {Kind(3, 1, 50, "a", Low), Kind(4, 2, 55, "a", High)}
EmptySquads == {<<>>, <<1>>, <<1, 2>>}
EmptyNetworks ==
    {Network(kinds, squad_ids) : kinds \in [1..3 -> EmptyKinds], squad_ids \in EmptySquads}

InitEmpty ==
    /\ aggregator = NewAggregator
    /\ recommender = NewRecommender(TRUE)
    /\ network \in EmptyNetworks
    /\ cache = NoCache
    /\ collected = {}
    /\ ret = [op |-> "init"]

NextEmpty ==
    \/ NextTransfer
    \/ \E top_n \in 1..MaxTopN : SuggestCaptain(top_n)
    \/ \E captain_choice \in CaptainChoices : SuggestViceCaptain(captain_choice)

SpecEmpty == InitEmpty /\ [][NextEmpty]_vars

-----------------------------------------------------------------------------
(* Claims on empty outcomes (SpecEmpty) *)

\* no squad member can be exchanged for an active player outside the squad of
\* the same position, of the position asked for and within the budget, who
\* scores more than 0.5 above the member
NoImprovingPair ==
    \A out_id \in SquadIds, in_id \in PlayerIds \ SquadIds :
        ~(/\ RowOf(in_id).status = "a"
          /\ RowOf(in_id).position_name = RowOf(out_id).position_name
          /\ ret.position_filter # None => RowOf(in_id).position_name = ret.position_filter
          /\ RowOf(in_id).value <= recommender.budget[1] + RowOf(out_id).now_cost
          /\ 2 * (ScoreOf(in_id) - ScoreOf(out_id)) > One)

\* every squad member has the name given as the captain
NoViceCandidate ==
    \A id \in SquadIds :
        /\ ret.captain_choice # <<>>
        /\ SameIgnoringCase(RowOf(id).full_name, ret.captain_choice)

\* C21: empty outcomes are results, not errors: suggest_transfers returns the
\* empty list when no position-matched, affordable pair improves the score by
\* more than 0.5, suggest_captain returns the empty list for an empty squad,
\* suggest_vice_captain returns no pick when no candidate remains, and none of
\* these calls raises
C21_EmptyOutcomesAreResults ==
    /\ (ret.op = "suggest_transfers" /\ NoImprovingPair)
           => ~ret.raised /\ ret.val = <<>>
    /\ (ret.op = "suggest_captain" /\ SquadIds = {})
           => ~ret.raised /\ ret.val = <<>>
    /\ (ret.op = "suggest_vice_captain" /\ NoViceCandidate)
           => ~ret.raised /\ ret.val = <<>>

-----------------------------------------------------------------------------
(* SpecMissing: scores of players whose form or ICT index is no number *)

\* the API gives a form, an ICT index or both that are no decimal strings
NoForm == [form |-> NonNumeric, total_points |-> 40, ict_index |-> 400,
           selected_by_percent |-> 100, summary |-> EasyRun]
NoIct == [form |-> 30, total_points |-> 40, ict_index |-> NonNumeric,
          selected_by_percent |-> 100, summary |-> EasyRun]
NoFormNoIct == [form |-> NonNumeric, total_points |-> 0, ict_index |-> NonNumeric,
                selected_by_percent |-> 100, summary |-> NoSummary]

MissingKinds ==
    {Kind(3, 1, 50, "a", NoForm), Kind(4, 2, 100, "a", NoIct),
     Kind(1, 1, 50, "a", NoFormNoIct)}

MissingNetworks ==
    {Network(kinds, CaptainSquad) : kinds \in [1..Len(CaptainSquad) -> MissingKinds]}

InitMissing ==
    /\ aggregator = NewAggregator
    /\ recommender \in {NewRecommender(u) : u \in BOOLEAN}
    /\ network \in MissingNetworks
    /\ cache = NoCache
    /\ collected = {}
    /\ ret = [op |-> "init"]

NextMissing ==
    \/ LoadWebData
    \/ \E player_id \in 1..Len(CaptainSquad), next_opponent \in {NoOpponent, 1, 2} :
          CalculatePlayerScore(player_id, next_opponent)
    \/ \E top_n \in 1..MaxTopN : SuggestCaptain(top_n)

SpecMissing == InitMissing /\ [][NextMissing]_vars

-----------------------------------------------------------------------------
(* Claims on non-numeric inputs (SpecMissing) *)

\* the row with 0 for a form and an ICT index that are missing
Zeroed(row) ==
    [row EXCEPT !.form_numeric = IF @ = NaN THEN 0 ELSE @,
                !.ict_index_numeric = IF @ = NaN THEN 0 ELSE @]

\* the candidate suggest_captain would make of the squad member with 0 for
\* what is missing
ZeroedCandidate(id) ==
    CaptainCandidate(recommender, aggregator, network, Zeroed(RowOf(id)),
                     NextOpponent(GameweekFixtures, RowOf(id).team, NoOpponent),
                     GameweekFixtures)

\* C22: a player whose form or ICT index is non-numeric counts as having 0 for
\* it in every number derived from it: the score of calculate_player_score,
\* and captain_score and expected_points of suggest_captain; no call raises
\* and no derived value is a missing value
C22_MissingCountsAsZero ==
    /\ ret.op = "calculate_player_score" =>
          /\ ret.val # NaN
          /\ ret.val = calculate_player_score(
                           recommender, aggregator, network,
                           Zeroed(PlayerRow(network.bootstrap[1].elements[ret.player_id],
                                            Teams)),
                           ret.next_opponent)
    /\ ret.op = "suggest_captain" =>
          /\ ~ret.raised
          /\ \A k \in DOMAIN ret.val :
                \A zeroed \in {ZeroedCandidate(ret.val[k].player_id)} :
                    /\ ret.val[k].captain_score # NaN
                    /\ ret.val[k].captain_score = zeroed.captain_score
                    /\ ret.val[k].expected_points # NaN
                    /\ ret.val[k].expected_points = zeroed.expected_points

-----------------------------------------------------------------------------
(* SpecFailure: the suggestions when requests to the API fail *)

\* a midfielder and a forward in the squad, and a forward in form outside it
FailureRoster ==
    <<Kind(3, 1, 50, "a", Low), Kind(4, 2, 50, "a", Low), Kind(4, 1, 55, "a", High)>>
FailureSquad == <<1, 2>>

\* the API with the requests named in failing answered by an error
FailingNetwork(failing) ==
    [field \in DOMAIN Network(FailureRoster, FailureSquad) |->
        IF field \in failing THEN Nothing
        ELSE Network(FailureRoster, FailureSquad)[field]]

FailureNetworks ==
    {FailingNetwork(failing) : failing \in SUBSET {"bootstrap", "fixtures", "entry", "picks"}}

InitFailure ==
    /\ aggregator = NewAggregator
    /\ recommender = NewRecommender(TRUE)
    /\ network \in FailureNetworks
    /\ cache = NoCache
    /\ collected = {}
    /\ ret = [op |-> "init"]

FetchFplData(use_cache) ==
    LET r == fetch_fpl_data(recommender, cache, network, use_cache)
    IN  /\ recommender' = r.self
        /\ cache' = r.files
        /\ ret' = [op |-> "fetch_fpl_data", use_cache |-> use_cache, ok |-> r.ok,
                   requested |-> r.requested]
        /\ UNCHANGED <<aggregator, network, collected>>

FetchMyTeam(use_cache) ==
    LET r == fetch_my_team(recommender, cache, network, use_cache)
    IN  /\ recommender' = r.self
        /\ cache' = r.files
        /\ ret' = [op |-> "fetch_my_team", use_cache |-> use_cache, ok |-> r.ok,
                   requested |-> r.requested]
        /\ UNCHANGED <<aggregator, network, collected>>

NextFailure ==
    \/ \E use_cache \in BOOLEAN : FetchFplData(use_cache)
    \/ \E use_cache \in BOOLEAN : FetchMyTeam(use_cache)
    \/ NextTransfer
    \/ \E top_n \in 1..MaxTopN : SuggestCaptain(top_n)
    \/ \E captain_choice \in CaptainChoices : SuggestViceCaptain(captain_choice)

SpecFailure == InitFailure /\ [][NextFailure]_vars

-----------------------------------------------------------------------------
(* Claims on failed fetches (SpecFailure) *)

\* C23: a failed fetch never becomes an exception in the suggestions: whatever
\* requests of fetch_my_team and fetch_fpl_data have failed, a call of
\* suggest_transfers, suggest_captain or suggest_vice_captain does not raise,
\* and with the team or the data unset it returns an empty result
C23_FailedFetchIsMissingData ==
    ret.op \in {"suggest_transfers", "suggest_captain", "suggest_vice_captain"} =>
        /\ ~ret.raised
        /\ (recommender.current_team = Nothing \/ recommender.data = Nothing)
               => ret.val = <<>>

-----------------------------------------------------------------------------
(* SpecBatch: one scrape_all over scrapers whose methods may raise *)

Raises == [raises |-> TRUE, value |-> <<>>]
Odds(name) == [player_name |-> name]

\* what the methods of the scraper at place k of the list can do on one run
BatchRecs(k) ==
    {Raises, Returns(<<IF k = 1 THEN Rec(<<"a", "b">>, "captain", "positive")
                       ELSE Rec(<<"b">>, "general", "neutral")>>)}
BatchInjuries(k) ==
    {Raises, Returns(<<Injury(<<"a", "b">>, IF k = 1 THEN "out" ELSE "doubtful")>>)}
BatchLineups(k) ==
    {Raises}
    \cup (IF k = 1 THEN {Returns(<<Lineup("T1", <<<<"a", "b">>>>)>>)}
          ELSE {Returns(<<Lineup(t, <<<<"b">>>>)>>) : t \in {"T1", "T2"}})
BatchOdds(k) == {Raises, Returns(<<Odds(IF k = 1 THEN <<"a", "b">> ELSE <<"b">>)>>)}

\* a scraper with or without scrape_bookies_odds
BatchScrapers(k) ==
    {[recs |-> r, injuries |-> i, lineups |-> l] :
        r \in BatchRecs(k), i \in BatchInjuries(k), l \in BatchLineups(k)}
    \cup {[recs |-> r, injuries |-> i, lineups |-> l, odds |-> o] :
            r \in BatchRecs(k), i \in BatchInjuries(k), l \in BatchLineups(k),
            o \in BatchOdds(k)}
BatchRuns ==
    {<<o>> : o \in BatchScrapers(1)}
    \cup {<<o1, o2>> : o1 \in BatchScrapers(1), o2 \in BatchScrapers(2)}

\* the store before the batch: new, or filled by an earlier batch
BatchStores ==
    {NewAggregator,
     scrape_all(NewAggregator,
                <<Scraper(<<Rec(<<"A", "B">>, "essential", "positive")>>,
                          <<Injury(<<"b">>, "suspended")>>,
                          <<Lineup("T1", <<<<"A", "a">>>>)>>)>>)}

InitBatch ==
    /\ aggregator \in BatchStores
    /\ recommender = NewRecommender(TRUE)
    /\ network = NoNetwork
    /\ cache = NoCache
    /\ collected = {}
    /\ ret = [op |-> "init"]

\* scrape_all with the batch kept for inspection: the store before, what each
\* method did, the calls made, and whether scrape_all raised (every call is
\* inside its own try/except Exception, so it never does)
ScrapeRecorded(outs) ==
    /\ aggregator' = scrape_all(aggregator, outs)
    /\ collected' = collected \cup StartersReturned(outs)
    /\ ret' = [op |-> "scrape_all", before |-> aggregator, outs |-> outs,
               calls |-> scrape_calls(outs, 1), raised |-> FALSE]
    /\ UNCHANGED <<recommender, network, cache>>

\* one batch in each behaviour
ScrapeBatch(outs) == ret.op = "init" /\ ScrapeRecorded(outs)

NextBatch == \E outs \in BatchRuns : ScrapeBatch(outs)

SpecBatch == InitBatch /\ [][NextBatch]_vars

\* the methods scraper out has, and those that returned on this run
MethodsOf(out) == {"recs", "injuries", "lineups"} \cup (IF HasOdds(out) THEN {"odds"} ELSE {})
Succeeded(out, m) == m \in MethodsOf(out) /\ ~out[m].raises

\* at least one scrape method of one scraper raised on this run
SomeCallRaised(outs) ==
    \E i \in 1..Len(outs) : \E m \in MethodsOf(outs[i]) : outs[i][m].raises

\* the values the non-failing calls of method m returned, in scraper order
RECURSIVE ReturnedBy(_, _)
ReturnedBy(outs, m) ==
    IF outs = <<>> THEN <<>>
    ELSE (IF Succeeded(Head(outs), m) THEN Head(outs)[m].value ELSE <<>>)
         \o ReturnedBy(Tail(outs), m)

\* every method of every scraper is called exactly once
EveryMethodCalledOnce(outs, calls) ==
    /\ \A i \in 1..Len(outs) : \A m \in MethodsOf(outs[i]) :
          Cardinality({c \in 1..Len(calls) : calls[c] = <<i, m>>}) = 1
    /\ \A c \in 1..Len(calls) :
          calls[c][1] \in 1..Len(outs) /\ calls[c][2] \in MethodsOf(outs[calls[c][1]])

\* the lists hold what they held before and then what the non-failing calls
\* returned
ListsHoldReturned(before, outs, after) ==
    /\ after.recommendations = before.recommendations \o ReturnedBy(outs, "recs")
    /\ after.injury_news = before.injury_news \o ReturnedBy(outs, "injuries")
    /\ after.odds = before.odds \o ReturnedBy(outs, "odds")

\* every lineup in the store was there before or was returned by a
\* non-failing call
LineupsOnlyReturned(before, outs, after) ==
    \A k \in 1..Len(after.lineups) :
        \/ \E j \in 1..Len(before.lineups) : before.lineups[j] = after.lineups[k]
        \/ \E j \in 1..Len(ReturnedBy(outs, "lineups")) :
              ReturnedBy(outs, "lineups")[j] = after.lineups[k]

\* every lineup a non-failing call returned is in the store
LineupsAllReturned(outs, after) ==
    \A j \in 1..Len(ReturnedBy(outs, "lineups")) :
        \E k \in 1..Len(after.lineups) : after.lineups[k] = ReturnedBy(outs, "lineups")[j]

\* the store takes the lineups of the non-failing calls with dict.update
LineupsUpdated(before, outs, after) ==
    after.lineups = DictUpdate(before.lineups, ReturnedBy(outs, "lineups"))

\* C24: after scrape_all, whichever scrape methods raised, every method of
\* every scraper was called exactly once, scrape_all did not raise, the store
\* holds the results of all the non-failing calls (recommendations, injuries,
\* odds and lineups) and nothing from a failing call
C24_FailureDoesNotAbortBatch ==
    (ret.op = "scrape_all" /\ SomeCallRaised(ret.outs)) =>
        /\ ~ret.raised
        /\ EveryMethodCalledOnce(ret.outs, ret.calls)
        /\ ListsHoldReturned(ret.before, ret.outs, aggregator)
        /\ LineupsOnlyReturned(ret.before, ret.outs, aggregator)
        /\ LineupsAllReturned(ret.outs, aggregator)

-----------------------------------------------------------------------------
(* SpecQueries: scrape_all and the three queries in any order *)

NextQueries == ScrapeWeb \/ QueryConsensus \/ QueryInjuryNews \/ QueryStart

SpecQueries == InitConsensus /\ [][NextQueries]_vars

QueryOps == {"get_player_consensus_score", "get_injury_status", "is_expected_to_start"}

\* what query op returns for name on the store pd
QueryValue(op, pd, name) ==
    CASE op = "get_player_consensus_score" -> get_player_consensus_score(pd, name)
      [] op = "get_injury_status" -> get_injury_status(pd, name)
      [] op = "is_expected_to_start" -> is_expected_to_start(pd, name)

\* C25: in any sequence of scrape_all calls and queries, every call of
\* get_player_consensus_score, get_injury_status or is_expected_to_start
\* returns the value determined by the store as it is at the moment of the
\* call, and leaves the store unchanged
C25_QueriesReadTheCurrentStore ==
    [][ret'.op \in QueryOps =>
          /\ aggregator' = aggregator
          /\ ret'.val = QueryValue(ret'.op, aggregator, ret'.name)]_vars

\* C25 witness: a consensus query answered on a store that has grown to three
\* recommendations, an injury signal and a lineup, counting all three
\* recommendations
C25_Witness ==
    /\ ret.op = "get_player_consensus_score"
    /\ ret.val.mention_count = 3
    /\ Len(aggregator.recommendations) = 3
    /\ aggregator.injury_news # <<>>
    /\ aggregator.lineups # <<>>

-----------------------------------------------------------------------------
(* SpecCache: the two fetches while time passes, cache files expire or are
   damaged, and requests to the API succeed or fail *)

\* the oldest a cache file gets, in hours
MaxAge == 2

\* cache_duration_hours as the recommender is constructed
CacheDurations == {1, 2}

CacheTypes == {"fpl_data", "my_team"}

InitCache ==
    /\ aggregator = NewAggregator
    /\ recommender \in {NewRecommenderWith(TRUE, d) : d \in CacheDurations}
    /\ network \in FailureNetworks
    /\ cache = NoCache
    /\ collected = {}
    /\ ret = [op |-> "init"]

ClearCache ==
    /\ cache' = clear_cache(cache)
    /\ ret' = [op |-> "clear_cache"]
    /\ UNCHANGED <<aggregator, recommender, network, collected>>

\* an hour passes: every cache file is an hour older
Tick ==
    /\ \A t \in CacheTypes : cache[t] # Nothing => cache[t][1].age < MaxAge
    /\ cache' = [t \in CacheTypes |->
                    IF cache[t] = Nothing THEN Nothing
                    ELSE Some([cache[t][1] EXCEPT !.age = @ + 1])]
    /\ ret' = [op |-> "tick"]
    /\ UNCHANGED <<aggregator, recommender, network, collected>>

\* a cache file is damaged: pickle.load raises on it from now on
Damage(cache_type) ==
    /\ cache[cache_type] # Nothing
    /\ cache[cache_type][1].readable
    /\ cache' = [cache EXCEPT ![cache_type] = Some([@[1] EXCEPT !.readable = FALSE])]
    /\ ret' = [op |-> "damage"]
    /\ UNCHANGED <<aggregator, recommender, network, collected>>

\* the requests of the next call succeed or fail differently
NetworkChanges ==
    /\ network' \in FailureNetworks \ {network}
    /\ ret' = [op |-> "network"]
    /\ UNCHANGED <<aggregator, recommender, cache, collected>>

NextCache ==
    \/ \E use_cache \in BOOLEAN : FetchFplData(use_cache)
    \/ \E use_cache \in BOOLEAN : FetchMyTeam(use_cache)
    \/ ClearCache
    \/ Tick
    \/ \E cache_type \in CacheTypes : Damage(cache_type)
    \/ NetworkChanges

SpecCache == InitCache /\ [][NextCache]_vars

\* the cache file a fetch uses
CacheTypeOf(op) == IF op = "fetch_fpl_data" THEN "fpl_data" ELSE "my_team"

\* what the fetch op does on the object self with the cache files
FetchOf(op, self, files, net, use_cache) ==
    IF op = "fetch_fpl_data" THEN fetch_fpl_data(self, files, net, use_cache)
    ELSE fetch_my_team(self, files, net, use_cache)

\* the file is missing, expired or unreadable
Unusable(self, files, cache_type) ==
    \/ files[cache_type] = Nothing
    \/ files[cache_type][1].age >= self.cache_duration_hours
    \/ ~files[cache_type][1].readable

\* C26: at every call of fetch_fpl_data or fetch_my_team, _load_cache of the
\* call's cache type returns a payload only if the file exists and its age is
\* strictly less than cache_duration_hours; with the file missing, expired or
\* unreadable it returns nothing and the fetch requests the API; with use_cache
\* false the fetch leaves the cache as it was, requests the API, and does what
\* it does with an empty cache directory
C26_CacheIsTimeBoxed ==
    [][ret'.op \in {"fetch_fpl_data", "fetch_my_team"} =>
          /\ _load_cache(recommender, cache, CacheTypeOf(ret'.op)) # Nothing
                => /\ cache[CacheTypeOf(ret'.op)] # Nothing
                   /\ cache[CacheTypeOf(ret'.op)][1].age < recommender.cache_duration_hours
          /\ Unusable(recommender, cache, CacheTypeOf(ret'.op))
                => /\ _load_cache(recommender, cache, CacheTypeOf(ret'.op)) = Nothing
                   /\ ret'.requested # <<>>
          /\ ~ret'.use_cache
                => /\ cache' = cache
                   /\ ret'.requested # <<>>
                   /\ recommender' = FetchOf(ret'.op, recommender, NoCache, network, FALSE).self]_vars

\* C26 witness: fetch_fpl_data with use_cache found a readable file exactly
\* cache_duration_hours old, requested the API, and the request failed, so
\* that the expired file is still there
C26_Witness ==
    /\ ret.op = "fetch_fpl_data"
    /\ ret.use_cache
    /\ ~ret.ok
    /\ ret.requested = <<"bootstrap">>
    /\ cache.fpl_data # Nothing
    /\ cache.fpl_data[1].readable
    /\ cache.fpl_data[1].age = recommender.cache_duration_hours

\* C27: in any sequence of fetches, whichever requests succeed or fail, every
\* fpl_data payload in the cache holds the fixtures list; a fetch_fpl_data that
\* changes the cache had both the bootstrap and the fixtures request succeed,
\* and one in which a request failed leaves the cache as it was
C27_CachedPayloadHasFixtures ==
    /\ [](cache.fpl_data # Nothing => cache.fpl_data[1].payload.fixtures # Nothing)
    /\ [][ret'.op = "fetch_fpl_data" =>
             /\ cache' # cache => (network.bootstrap # Nothing /\ network.fixtures # Nothing)
             /\ ~ret'.ok => cache' = cache]_vars

\* C27 witness: a fetch_fpl_data with use_cache whose bootstrap request
\* succeeded and whose fixtures request failed: the object holds the data
\* without fixtures, the cache holds no payload
C27_Witness ==
    /\ ret.op = "fetch_fpl_data"
    /\ ret.use_cache
    /\ ~ret.ok
    /\ ret.requested = <<"bootstrap", "fixtures">>
    /\ recommender.data # Nothing
    /\ recommender.data[1].fixtures = Nothing
    /\ cache.fpl_data = Nothing

-----------------------------------------------------------------------------
(* SpecGameweek: fetch_fpl_data on league payloads whose events carry the
   is_current and is_next flags on either gameweek *)

\* the flags of one event: finished or later, current, next
EventFlags ==
    {[is_current |-> FALSE, is_next |-> FALSE],
     [is_current |-> TRUE, is_next |-> FALSE],
     [is_current |-> FALSE, is_next |-> TRUE]}

\* two gameweeks, at most one of them current and at most one next
GameweekEvents ==
    {<<[id |-> 1] @@ f1, [id |-> 2] @@ f2>> :
        <<f1, f2>> \in {p \in EventFlags \X EventFlags :
                           /\ ~(p[1].is_current /\ p[2].is_current)
                           /\ ~(p[1].is_next /\ p[2].is_next)}}

GameweekNetwork(events, failing) ==
    [FailingNetwork(failing) EXCEPT
        !.bootstrap = IF @ = Nothing THEN Nothing ELSE Some([@[1] EXCEPT !.events = events])]

GameweekNetworks ==
    {GameweekNetwork(events, failing) :
        events \in GameweekEvents, failing \in SUBSET {"bootstrap", "fixtures"}}

InitGameweek ==
    /\ aggregator = NewAggregator
    /\ recommender = NewRecommender(TRUE)
    /\ network \in GameweekNetworks
    /\ cache = NoCache
    /\ collected = {}
    /\ ret = [op |-> "init"]

NextGameweek ==
    \/ \E use_cache \in BOOLEAN : FetchFplData(use_cache)
    \/ ClearCache
    \/ Tick
    \/ \E cache_type \in CacheTypes : Damage(cache_type)

SpecGameweek == InitGameweek /\ [][NextGameweek]_vars

\* C28: when fetch_fpl_data has loaded from the cache the very payload the API
\* serves (the same events with the same flags), current_gameweek is the value
\* a fresh fetch of that payload sets
C28_SameGameweekCachedOrFresh ==
    (/\ ret.op = "fetch_fpl_data"
     /\ ret.ok
     /\ ret.requested = <<>>
     /\ network.bootstrap # Nothing
     /\ recommender.data[1].events = network.bootstrap[1].events)
    => recommender.current_gameweek =
          fetch_fpl_data(NewRecommender(TRUE), NoCache, network, FALSE).self.current_gameweek

-----------------------------------------------------------------------------
(* SpecRepeat: scrape_all run again and again, and the consensus query *)

\* most recommendations, and most injury signals, the store holds in SpecRepeat
MaxRepeatRecs == 4

RepeatRecs ==
    {Rec(<<"a", "b">>, "captain", "positive"), Rec(<<"a", "b">>, "avoid", "neutral"),
     Rec(<<"b">>, "general", "negative")}
RepeatScrapers ==
    {Scraper(<<r>>, i, <<>>) : r \in RepeatRecs, i \in {<<>>, <<Injury(<<"a", "b">>, "out")>>}}
RepeatRuns ==
    {<<o>> : o \in RepeatScrapers}
    \cup {<<o1, o2>> : o1 \in RepeatScrapers, o2 \in RepeatScrapers}

ScrapeRepeat ==
    \E outs \in RepeatRuns :
        /\ Len(aggregator.recommendations) + CountRecs(outs) <= MaxRepeatRecs
        /\ Len(aggregator.injury_news) + CountInjuries(outs) <= MaxRepeatRecs
        /\ ScrapeRecorded(outs)

NextRepeat == ScrapeRepeat \/ QueryConsensus

SpecRepeat == InitConsensus /\ [][NextRepeat]_vars

\* list repeated k times
RECURSIVE Repeat(_, _)
Repeat(list, k) == IF k = 0 THEN <<>> ELSE list \o Repeat(list, k - 1)

\* the store holding the recommendations recs and nothing else
StoreOf(recs) == [NewAggregator EXCEPT !.recommendations = recs]

\* the numbers k such that the recommendation list is some list k times over:
\* what k runs of scrape_all with the same results leave in a new store
RunsOf(recs) ==
    {k \in 1..Len(recs) :
        /\ Len(recs) % k = 0
        /\ recs = Repeat(SubSeq(recs, 1, Len(recs) \div k), k)}

\* C29: after each scrape_all the recommendation list and the injury list are
\* the list before the call followed by the entries the scrapers returned, in
\* scraper order; and when the store holds the results of one run k times
\* over, a name's mention_count is k times its mention_count after one run and
\* its consensus_score is the one after one run
C29_AppendOnly ==
    /\ ret.op = "scrape_all" =>
          /\ aggregator.recommendations
                = ret.before.recommendations \o ReturnedBy(ret.outs, "recs")
          /\ aggregator.injury_news
                = ret.before.injury_news \o ReturnedBy(ret.outs, "injuries")
    /\ ret.op = "get_player_consensus_score" =>
          \A k \in RunsOf(aggregator.recommendations) :
              \A once \in {get_player_consensus_score(
                              StoreOf(SubSeq(aggregator.recommendations, 1,
                                             Len(aggregator.recommendations) \div k)),
                              ret.name)} :
                  /\ ret.val.mention_count = k * once.mention_count
                  /\ ret.val.consensus_score = once.consensus_score

\* C29 witness: a query on a store that holds the two recommendations of one
\* run twice over, for a name one of them mentions: a count of 2, and the
\* score of one run
C29_Witness ==
    /\ ret.op = "get_player_consensus_score"
    /\ Len(aggregator.recommendations) = 4
    /\ 2 \in RunsOf(aggregator.recommendations)
    /\ 4 \notin RunsOf(aggregator.recommendations)
    /\ ret.val.mention_count = 2
    /\ ret.val.consensus_score # 0

-----------------------------------------------------------------------------
(* SpecRange: calculate_player_score at and beyond the ends of its inputs *)

\* form in tenths: negative, 0, 5.0, 10.0 and 11.0
RangeForms == {-10, 0, 50, 100, 110}
RangePoints == {-20, 0, 300}
\* ict_index in tenths: 0 and 300.0
RangeIcts == {0, 3000}
\* the difficulties of the next two fixtures
RangeFixtures ==
    {<<[difficulty |-> d1], [difficulty |-> d2]>> :
        <<d1, d2>> \in {<<1, 1>>, <<1, 5>>, <<5, 5>>}}
\* the matches played against team 1
RangeHistories ==
    {<<>>, <<[opponent_team |-> 1, total_points |-> -2]>>,
     <<[opponent_team |-> 1, total_points |-> 2], [opponent_team |-> 1, total_points |-> 18]>>}

RangeProfiles ==
    {[form |-> f, total_points |-> t, ict_index |-> i, selected_by_percent |-> 100,
      summary |-> Some([fixtures |-> x, history |-> h])] :
        f \in RangeForms, t \in RangePoints, i \in RangeIcts,
        x \in RangeFixtures, h \in RangeHistories}

\* one player, "ab", of each profile
RangeNetworks == {Network(<<Kind(3, 1, 50, "a", p)>>, <<1>>) : p \in RangeProfiles}

InitRange ==
    /\ aggregator = NewAggregator
    /\ recommender \in {NewRecommender(u) : u \in BOOLEAN}
    /\ network \in RangeNetworks
    /\ cache = NoCache
    /\ collected = {}
    /\ ret = [op |-> "init"]

NextRange ==
    \/ ScrapeScoreRecs
    \/ LoadWebData
    \/ \E next_opponent \in {NoOpponent, 1} : CalculatePlayerScore(1, next_opponent)

SpecRange == InitRange /\ [][NextRange]_vars

\* the inputs of the player scored by the last call, as the API serves them
RangeScored == network.bootstrap[1].elements[ret.player_id]
RangeSummary == network.summary[ret.player_id][1]

\* the points of the matches against the next opponent
RangeVsOpponent ==
    {i \in 1..Len(RangeSummary.history) :
        RangeSummary.history[i].opponent_team = ret.next_opponent}

\* the historical avg_points the call used is negative
NegativeAverage ==
    /\ ret.next_opponent # NoOpponent
    /\ RefTotal(RangeSummary.history, "total_points", RangeVsOpponent) < 0

\* form in [0, 10], every difficulty in [1, 5], total_points >= 0 and
\* avg_points >= 0
InRange ==
    /\ RangeScored.form >= 0
    /\ RangeScored.form <= 100
    /\ \A i \in 1..Len(RangeSummary.fixtures) : RangeSummary.fixtures[i].difficulty \in 1..5
    /\ RangeScored.total_points >= 0
    /\ ~NegativeAverage

\* C30: with fixture difficulties in [1, 5], calculate_player_score of a player
\* with form in [0, 10], total_points >= 0 and avg_points >= 0 lies in [0, 10]
\* under both weight columns; a score above 10 has form above 10, and a
\* negative score has negative total_points or negative avg_points
C30_ScoreRange ==
    ret.op = "calculate_player_score" =>
        /\ InRange => (0 <= ret.val /\ ret.val <= 10 * One)
        /\ ret.val > 10 * One => RangeScored.form > 100
        /\ ret.val < 0 => (RangeScored.total_points < 0 \/ NegativeAverage)

\* C30 witness: a player with form 10.0, the easiest fixtures, the points, the
\* ict index and the history all at their caps, scored at exactly 10 without
\* the web column
C30_Witness ==
    /\ ret.op = "calculate_player_score"
    /\ InRange
    /\ ~UsesWebColumn(recommender)
    /\ RangeScored.form = 100
    /\ ret.val = 10 * One

====
